---- MODULE Spec2Model ----
(***************************************************************************)
(* hellopeter-cli: the remote client (make_api_request, get_total_pages,   *)
(* fetch_business_stats) and the incremental fetch loop                    *)
(* (fetch_reviews_for_business) of hellopeter_scraper.py.                  *)
(*                                                                         *)
(* Python values are modelled as follows.  An optional value is a tuple:   *)
(* None is << >> and a present value x is <<x>>.  A dict is a function     *)
(* whose DOMAIN is the set of keys it carries, read with Get (dict.get).   *)
(* A list is a sequence, a set is a set.                                   *)
(***************************************************************************)
EXTENDS Integers, Sequences, FiniteSets, TLC

(* ---------------- program constants (config.py) ---------------- *)

MAX_RETRIES == 3

REQUEST_DELAY == 1

(* ---------------- bounds of the model ---------------- *)

\* pages the remote can serve are 1..MaxPage
MaxPage == 3

\* review IDs are 1..MaxId
MaxId == 2

\* a served page carries at most MaxPerPage reviews
MaxPerPage == 2

\* database operations called in one run of the database steps
MaxDbOps == 4

\* batches saved in one run of the save steps
MaxSaves == 2

(* ---------------- Python values ---------------- *)

None == << >>

Some(x) == <<x>>

IsNone(o) == o = << >>

Val(o) == o[1]

\* dict.get(key, default)
Get(d, k, default) == IF k \in DOMAIN d THEN d[k] ELSE default

\* Python truthiness of an optional set (None and set() are both falsy)
TruthySet(o) == ~IsNone(o) /\ Val(o) # {}

(* ---------------- the remote side ---------------- *)

Slugs == {"acme", "zeta"}

\* What one HTTP attempt can meet: a 2xx with a JSON body, a 2xx whose body
\* does not parse, a 4xx status, a 5xx status, a connection error.
Answers == {"200", "200bad", "404", "500", "conn"}

AnswerSeqs == [1..MAX_RETRIES -> Answers]

\* The review objects the remote can serve.  Odd IDs carry business_name,
\* IDs = 1 mod 3 carry the industry fields; the others lack them.
ReviewOf(i) ==
    [k \in {"id"} \cup (IF i % 2 = 1 THEN {"business_name"} ELSE {})
                  \cup (IF i % 3 = 1 THEN {"industry_name", "industry_slug"} ELSE {})
       |-> CASE k = "id" -> i
             [] k = "business_name" -> "Acme Ltd"
             [] k = "industry_name" -> "Retail"
             [] k = "industry_slug" -> "retail"]

Reviews == {ReviewOf(i) : i \in 1..MaxId}

\* the "data" array of a reviews page
PageData == UNION {[1..n -> Reviews] : n \in 0..MaxPerPage}

\* the payload get_total_pages reads: a reviews envelope with or without last_page
TotalPayloads == {[data |-> << >>]} \cup {[data |-> << >>, last_page |-> n] : n \in 0..MaxPage}

\* the payload of the business-stats endpoint
StatsPayloads ==
    { [totalReviews |-> 12],
      [totalReviews |-> 12, monthlyStats |-> [trustIndex |-> 7]],
      [totalReviews |-> 12, monthlyStats |-> [businessName |-> "Acme Full Name"]],
      [totalReviews |-> 12,
       monthlyStats |-> [businessName |-> "Acme Full Name",
                         industryName |-> "Retail", industrySlug |-> "retail"]] }

(* ---------------- make_api_request ---------------- *)

\* the exception one failed attempt raises: raise_for_status raises HTTPError
\* for 4xx/5xx, requests.get raises ConnectionError, response.json() raises
\* JSONDecodeError; all of them are RequestException
Raised(a) ==
    CASE a = "404"    -> [type |-> "HTTPError", status_code |-> 404]
      [] a = "500"    -> [type |-> "HTTPError", status_code |-> 500]
      [] a = "conn"   -> [type |-> "ConnectionError", status_code |-> 0]
      [] a = "200bad" -> [type |-> "JSONDecodeError", status_code |-> 200]

NoExc == [type |-> "none", status_code |-> 0]

RequestExceptions == {"HTTPError", "ConnectionError", "JSONDecodeError"}

\* variant: a 4xx status is given up at once (a giveup predicate on 4xx)
GiveUp_On4xx(exc, tries) ==
    \/ exc.type \notin RequestExceptions
    \/ tries >= MAX_RETRIES
    \/ exc.status_code \in 400..499

\* variant: the last attempt is never made
GiveUp_Early(exc, tries) ==
    exc.type \notin RequestExceptions \/ tries >= MAX_RETRIES - 1

\* backoff.on_exception(expo, (RequestException, HTTPError), max_tries=MAX_RETRIES):
\* gives up (re-raises) once max_tries attempts were made
GiveUp(exc, tries) == exc.type \notin RequestExceptions \/ tries >= MAX_RETRIES

\* variant: the sleep comes before raise_for_status, so error statuses sleep too
Body_SleepFirst(a) ==
    CASE a = "200"    -> <<"200", "sleep", "json">>
      [] a = "200bad" -> <<"200bad", "sleep", "raise">>
      [] a = "conn"   -> <<a, "raise">>
      [] OTHER        -> <<a, "sleep", "raise">>

\* the body of make_api_request after requests.get answered a, as the events
\* it produces: raise_for_status, then time.sleep(REQUEST_DELAY), then json()
Body(a) ==
    CASE a = "200"    -> <<"200", "sleep", "json">>
      [] a = "200bad" -> <<"200bad", "sleep", "raise">>
      [] OTHER        -> <<a, "raise">>

\* number of occurrences of e in the sequence s
Count(s, e) == Cardinality({i \in 1..Len(s) : s[i] = e})

\* One decorated call.  answers[i] is what the i-th HTTP attempt meets.  The
\* result tells whether the call returned or raised, the exception, the
\* number of HTTP attempts, the seconds slept in time.sleep(REQUEST_DELAY)
\* and the events in order.
RECURSIVE Attempt(_, _, _)
Attempt(answers, tries, events) ==
    LET a == answers[tries]
        ev == events \o Body(a)
    IN  IF a = "200"
        THEN [raised |-> FALSE, exc |-> NoExc, tries |-> tries,
              slept |-> REQUEST_DELAY * Count(ev, "sleep"),
              events |-> Append(ev, "return")]
        ELSE IF GiveUp(Raised(a), tries)
        THEN [raised |-> TRUE, exc |-> Raised(a), tries |-> tries,
              slept |-> REQUEST_DELAY * Count(ev, "sleep"),
              events |-> Append(ev, "giveup")]
        ELSE Attempt(answers, tries + 1, Append(ev, "backoff"))

make_api_request(answers) == Attempt(answers, 1, << >>)

(* ---------------- get_total_pages, fetch_business_stats ---------------- *)

\* a function's outcome: it returns a value or lets an exception escape
Return(v) == [kind |-> "return", value |-> v]

Raise(exc) == [kind |-> "raise", value |-> exc]

NoResult == [kind |-> "none", value |-> 0]

\* variant: only a 404 is turned into 0, other HTTP errors escape
get_total_pages_Only404(r, payload) ==
    IF ~r.raised THEN Return(Get(payload, "last_page", 0))
    ELSE IF r.exc.type = "HTTPError" /\ r.exc.status_code = 404 THEN Return(0)
    ELSE Raise(r.exc)

\* r is the outcome of the one make_api_request call, payload what a 2xx carried
get_total_pages(r, payload) ==
    IF ~r.raised THEN Return(Get(payload, "last_page", 0))
    ELSE IF r.exc.type = "HTTPError" THEN Return(0)
    ELSE Raise(r.exc)

\* Python None in a field that otherwise holds a string
Null == "None"

\* variant: the business name is not defaulted to the slug
fetch_business_stats_NoDefault(business_slug, r, stats_data) ==
    IF ~r.raised
    THEN LET monthlyStats == Get(stats_data, "monthlyStats", << >>)
         IN  Return([business_data |->
                        Some([slug |-> business_slug,
                              name |-> Get(monthlyStats, "businessName", Null),
                              industry_name |-> Get(monthlyStats, "industryName", Null),
                              industry_slug |-> Get(monthlyStats, "industrySlug", Null)]),
                     stats_data |-> Some(stats_data)])
    ELSE IF r.exc.type = "HTTPError"
    THEN Return([business_data |-> None, stats_data |-> None])
    ELSE Raise(r.exc)

fetch_business_stats(business_slug, r, stats_data) ==
    IF ~r.raised
    THEN LET monthlyStats == Get(stats_data, "monthlyStats", << >>)
         IN  Return([business_data |->
                        Some([slug |-> business_slug,
                              name |-> Get(monthlyStats, "businessName", business_slug),
                              industry_name |-> Get(monthlyStats, "industryName", Null),
                              industry_slug |-> Get(monthlyStats, "industrySlug", Null)]),
                     stats_data |-> Some(stats_data)])
    ELSE IF r.exc.type = "HTTPError"
    THEN Return([business_data |-> None, stats_data |-> None])
    ELSE Raise(r.exc)

(* ---------------- fetch_reviews_for_business: one page ---------------- *)

\* variant: an empty start page yields a record without a name
BusinessFromPage_Unnamed(business_slug, reviews_data) ==
    IF Len(reviews_data) > 0
    THEN LET first_review == reviews_data[1]
         IN  [slug |-> business_slug,
              name |-> Get(first_review, "business_name", business_slug),
              industry_name |-> Get(first_review, "industry_name", Null),
              industry_slug |-> Get(first_review, "industry_slug", Null)]
    ELSE [slug |-> business_slug, name |-> Null,
          industry_name |-> Null, industry_slug |-> Null]

\* variant: the record is taken from the last review of the page
BusinessFromPage_LastReview(business_slug, reviews_data) ==
    IF Len(reviews_data) > 0
    THEN LET last_review == reviews_data[Len(reviews_data)]
         IN  [slug |-> business_slug,
              name |-> Get(last_review, "business_name", business_slug),
              industry_name |-> Get(last_review, "industry_name", Null),
              industry_slug |-> Get(last_review, "industry_slug", Null)]
    ELSE [slug |-> business_slug, name |-> business_slug,
          industry_name |-> Null, industry_slug |-> Null]

\* variant: the slug is read from the review instead of the argument
BusinessFromPage_SlugFromReview(business_slug, reviews_data) ==
    IF Len(reviews_data) > 0
    THEN LET first_review == reviews_data[1]
         IN  [slug |-> Get(first_review, "business_slug", Null),
              name |-> Get(first_review, "business_name", business_slug),
              industry_name |-> Get(first_review, "industry_name", Null),
              industry_slug |-> Get(first_review, "industry_slug", Null)]
    ELSE [slug |-> business_slug, name |-> business_slug,
          industry_name |-> Null, industry_slug |-> Null]

\* business data taken from the page fetched as start_page
BusinessFromPage(business_slug, reviews_data) ==
    IF Len(reviews_data) > 0
    THEN LET first_review == reviews_data[1]
         IN  [slug |-> business_slug,
              name |-> Get(first_review, "business_name", business_slug),
              industry_name |-> Get(first_review, "industry_name", Null),
              industry_slug |-> Get(first_review, "industry_slug", Null)]
    ELSE [slug |-> business_slug, name |-> business_slug,
          industry_name |-> Null, industry_slug |-> Null]

\* the reviews of the page whose id is not in the set ids
NewReviews(reviews_data, ids) ==
    SelectSeq(reviews_data, LAMBDA review : Get(review, "id", 0) \notin ids)

FoundExisting(reviews_data, ids) ==
    \E i \in 1..Len(reviews_data) : Get(reviews_data[i], "id", 0) \in ids

\* does the page take the filtering branch (existing_review_ids and reviews_data)
Filters(existing_review_ids, reviews_data) ==
    TruthySet(existing_review_ids) /\ Len(reviews_data) > 0

\* variant: the page is added whole, known reviews included
Added_Unfiltered(existing_review_ids, reviews_data) == reviews_data

\* variant: a page that carries a known review adds nothing
Added_SkipsMixed(existing_review_ids, reviews_data) ==
    IF Filters(existing_review_ids, reviews_data)
    THEN (IF FoundExisting(reviews_data, Val(existing_review_ids)) THEN << >>
          ELSE reviews_data)
    ELSE reviews_data

\* what the page adds to all_reviews
Added(existing_review_ids, reviews_data) ==
    IF Filters(existing_review_ids, reviews_data)
    THEN NewReviews(reviews_data, Val(existing_review_ids))
    ELSE reviews_data

\* variant: known reviews are filtered but the loop never breaks on them
StopsAt_Never(existing_review_ids, reviews_data) == FALSE

\* variant: the loop breaks as soon as a page carries a known review
StopsAt_AnyKnown(existing_review_ids, reviews_data) ==
    /\ Filters(existing_review_ids, reviews_data)
    /\ FoundExisting(reviews_data, Val(existing_review_ids))

\* variant: the loop also breaks on a page without reviews
StopsAt_OnEmpty(existing_review_ids, reviews_data) ==
    \/ Len(reviews_data) = 0
    \/ /\ Filters(existing_review_ids, reviews_data)
       /\ FoundExisting(reviews_data, Val(existing_review_ids))
       /\ NewReviews(reviews_data, Val(existing_review_ids)) = << >>

\* variant: the loop breaks whenever a set was passed and the page added
\* nothing, known review or not
StopsAt_NothingAdded(existing_review_ids, reviews_data) ==
    /\ ~IsNone(existing_review_ids)
    /\ NewReviews(reviews_data, Val(existing_review_ids)) = << >>

\* the break of the stopping policy: found_existing and not new_reviews
StopsAt(existing_review_ids, reviews_data) ==
    /\ Filters(existing_review_ids, reviews_data)
    /\ FoundExisting(reviews_data, Val(existing_review_ids))
    /\ NewReviews(reviews_data, Val(existing_review_ids)) = << >>

(* ---------------- database.py: the store ---------------- *)

\* The three tables.  A row's primary key id is its position in the table
\* (autoincrement, rows are never deleted by these operations).
EmptyStore ==
    [businesses |-> << >>, reviews |-> << >>, stats |-> << >>, clock |-> 0,
     exists |-> TRUE]

\* no database file yet at config.DEFAULT_DB_PATH: nothing was ever stored
FreshStore == [EmptyStore EXCEPT !.exists = FALSE]

\* init_db(): create_all creates the file and the tables that are missing
init_db(s) == [s EXCEPT !.exists = TRUE]

\* what a database operation can meet: nothing, an error while it queries,
\* an error while it commits
Faults == {"none", "query", "commit"}

DbError == [type |-> "OperationalError", status_code |-> 0]

TypeError == [type |-> "TypeError", status_code |-> 0]

\* session.query(Business).filter_by(slug=slug).first(): the id, 0 if no row
BusinessIdOf(s, slug) ==
    IF \E i \in 1..Len(s.businesses) : s.businesses[i].slug = slug
    THEN CHOOSE i \in 1..Len(s.businesses) :
            /\ s.businesses[i].slug = slug
            /\ \A j \in 1..(i - 1) : s.businesses[j].slug # slug
    ELSE 0

\* session.query(Review).filter_by(review_id=id).first(): the id, 0 if no row
ReviewRowOf(s, review_id) ==
    IF \E i \in 1..Len(s.reviews) : s.reviews[i].review_id = review_id
    THEN CHOOSE i \in 1..Len(s.reviews) :
            /\ s.reviews[i].review_id = review_id
            /\ \A j \in 1..(i - 1) : s.reviews[j].review_id # review_id
    ELSE 0

StatsRowOf(s, business_id) ==
    IF \E i \in 1..Len(s.stats) : s.stats[i].business_id = business_id
    THEN CHOOSE i \in 1..Len(s.stats) :
            /\ s.stats[i].business_id = business_id
            /\ \A j \in 1..(i - 1) : s.stats[j].business_id # business_id
    ELSE 0

\* the outcome of an operation on the store: the store it leaves, what it
\* returned or raised
Outcome(s, result) == [store |-> s, result |-> result]

\* variant: an existing business is updated with the arguments of the call
get_or_create_business_Updates(s, slug, name, industry_name, industry_slug, fault) ==
    LET id == BusinessIdOf(s, slug)
        row == [slug |-> slug, name |-> name, industry_name |-> industry_name,
                industry_slug |-> industry_slug]
    IN  IF fault = "query" THEN Outcome(s, Raise(DbError))
        ELSE IF id # 0
        THEN Outcome([s EXCEPT !.businesses[id] = row], Return(id))
        ELSE IF fault = "commit" THEN Outcome(s, Raise(DbError))
        ELSE Outcome([s EXCEPT !.businesses = Append(@, row)],
                     Return(Len(s.businesses) + 1))

\* get_or_create_business(session, slug, name, industry_name, industry_slug):
\* returns the Business row, here by its id
get_or_create_business(s, slug, name, industry_name, industry_slug, fault) ==
    LET id == BusinessIdOf(s, slug)
        row == [slug |-> slug, name |-> name, industry_name |-> industry_name,
                industry_slug |-> industry_slug]
    IN  IF fault = "query" THEN Outcome(s, Raise(DbError))
        ELSE IF id # 0 THEN Outcome(s, Return(id))
        ELSE IF fault = "commit" THEN Outcome(s, Raise(DbError))
        ELSE Outcome([s EXCEPT !.businesses = Append(@, row)],
                     Return(Len(s.businesses) + 1))

\* datetime.strptime(text, format): the timestamp, or ValueError
strptime(text, format) ==
    CASE format = "%Y-%m-%d %H:%M:%S" /\ text = "2024-01-01 10:00:00" ->
            [ok |-> TRUE, value |-> 2024010110]
      [] format = "%Y-%m-%d %H:%M:%S" /\ text = "2024-02-01 10:00:00" ->
            [ok |-> TRUE, value |-> 2024020110]
      [] format = "%Y-%m-%d" /\ text = "2020-05-05" ->
            [ok |-> TRUE, value |-> 2020050500]
      [] OTHER -> [ok |-> FALSE, value |-> 0]

\* Python truthiness of a text field read with get(): None and "" are falsy
TruthyText(t) == t # Null /\ t # ""

\* variant: each date is parsed on its own, a failure empties only that one
ParsedDates_Separately(review_data) ==
    LET c == Get(review_data, "created_at", Null)
        a == Get(review_data, "author_created_date", Null)
        pc1 == strptime(c, "%Y-%m-%d %H:%M:%S")
        pa == strptime(a, "%Y-%m-%d")
    IN  [created_at |-> IF TruthyText(c) /\ pc1.ok THEN Some(pc1.value) ELSE None,
         author_created_date |-> IF TruthyText(a) /\ pa.ok THEN Some(pa.value) ELSE None]

\* variant: a timestamp parsed before the author date failed is kept
ParsedDates_KeepsFirst(review_data) ==
    LET c == Get(review_data, "created_at", Null)
        a == Get(review_data, "author_created_date", Null)
        pc1 == strptime(c, "%Y-%m-%d %H:%M:%S")
        pa == strptime(a, "%Y-%m-%d")
    IN  IF TruthyText(c) /\ ~pc1.ok
        THEN [created_at |-> None, author_created_date |-> None]
        ELSE [created_at |-> IF TruthyText(c) THEN Some(pc1.value) ELSE None,
              author_created_date |-> IF TruthyText(a) /\ pa.ok THEN Some(pa.value)
                                      ELSE None]

\* lines 138-144: both dates, or both None when either raises ValueError
ParsedDates(review_data) ==
    LET c == Get(review_data, "created_at", Null)
        a == Get(review_data, "author_created_date", Null)
        pc1 == strptime(c, "%Y-%m-%d %H:%M:%S")
        pa == strptime(a, "%Y-%m-%d")
    IN  IF (TruthyText(c) /\ ~pc1.ok) \/ (TruthyText(a) /\ ~pa.ok)
        THEN [created_at |-> None, author_created_date |-> None]
        ELSE [created_at |-> IF TruthyText(c) THEN Some(pc1.value) ELSE None,
              author_created_date |-> IF TruthyText(a) THEN Some(pa.value) ELSE None]

\* the Review row built at lines 148-166
ReviewRow(review_data, business_id) ==
    [review_id |-> Get(review_data, "id", 0),
     business_id |-> business_id,
     created_at |-> ParsedDates(review_data).created_at,
     author_created_date |-> ParsedDates(review_data).author_created_date,
     review_title |-> Get(review_data, "review_title", Null),
     replied |-> (Get(review_data, "replied", 0) = 1)]

\* variant: a failure of the insert propagates to the caller
store_review_Raises(s, review_data, business_id, fault) ==
    LET review_id_from_data == Get(review_data, "id", 0)
        existing == ReviewRowOf(s, review_id_from_data)
    IN  IF review_id_from_data = 0 THEN Outcome(s, Return(None))
        ELSE IF fault = "query" THEN Outcome(s, Raise(DbError))
        ELSE IF existing # 0 THEN Outcome(s, Return(Some(existing)))
        ELSE IF fault = "commit" THEN Outcome(s, Raise(DbError))
        ELSE Outcome([s EXCEPT !.reviews = Append(@, ReviewRow(review_data, business_id))],
                     Return(Some(Len(s.reviews) + 1)))

\* variant: an existing review is overwritten by the new payload
store_review_Overwrites(s, review_data, business_id, fault) ==
    LET review_id_from_data == Get(review_data, "id", 0)
        existing == ReviewRowOf(s, review_id_from_data)
    IN  IF review_id_from_data = 0 THEN Outcome(s, Return(None))
        ELSE IF fault = "query" THEN Outcome(s, Raise(DbError))
        ELSE IF existing # 0
        THEN Outcome([s EXCEPT !.reviews[existing] = ReviewRow(review_data, business_id)],
                     Return(Some(existing)))
        ELSE IF fault = "commit" THEN Outcome(s, Return(None))
        ELSE Outcome([s EXCEPT !.reviews = Append(@, ReviewRow(review_data, business_id))],
                     Return(Some(Len(s.reviews) + 1)))

\* store_review(session, review_data, business_id): returns the Review row
\* (here Some(id)), the existing one if the review ID is already stored, or
\* None when the record has no ID or the insert failed and was rolled back
store_review(s, review_data, business_id, fault) ==
    LET review_id_from_data == Get(review_data, "id", 0)
        existing == ReviewRowOf(s, review_id_from_data)
    IN  IF review_id_from_data = 0 THEN Outcome(s, Return(None))
        ELSE IF fault = "query" THEN Outcome(s, Raise(DbError))
        ELSE IF existing # 0 THEN Outcome(s, Return(Some(existing)))
        ELSE IF fault = "commit" THEN Outcome(s, Return(None))
        ELSE Outcome([s EXCEPT !.reviews = Append(@, ReviewRow(review_data, business_id))],
                     Return(Some(Len(s.reviews) + 1)))

\* variant: the IDs of every business are returned
get_existing_review_ids_All(s, business_slug, fault) ==
    IF fault = "query" THEN Outcome(s, Raise(DbError))
    ELSE IF BusinessIdOf(s, business_slug) = 0 THEN Outcome(s, Return({}))
    ELSE Outcome(s, Return({s.reviews[i].review_id : i \in 1..Len(s.reviews)}))

\* variant: only the review of the business stored last is known
get_existing_review_ids_Latest(s, business_slug, fault) ==
    LET id == BusinessIdOf(s, business_slug)
        own == {j \in 1..Len(s.reviews) : s.reviews[j].business_id = id}
    IN  IF fault = "query" THEN Outcome(s, Raise(DbError))
        ELSE IF id = 0 THEN Outcome(s, Return({}))
        ELSE Outcome(s, Return({s.reviews[i].review_id :
                 i \in {j \in own : \A k \in own : k <= j}}))

\* get_existing_review_ids(session, business_slug): the set of review IDs; the
\* function has no handler, an error of one of its two queries propagates
get_existing_review_ids(s, business_slug, fault) ==
    LET id == BusinessIdOf(s, business_slug)
    IN  IF fault = "query" THEN Outcome(s, Raise(DbError))
        ELSE IF id = 0 THEN Outcome(s, Return({}))
        ELSE Outcome(s, Return({s.reviews[i].review_id :
                 i \in {j \in 1..Len(s.reviews) : s.reviews[j].business_id = id}}))

\* ORDER BY created_at DESC in SQLite: a NULL sorts below every timestamp
SortKey(row) == IF IsNone(row.created_at) THEN 0 ELSE Val(row.created_at)

\* variant: the reviews are not filtered by business
get_latest_review_date_AnyBusiness(s, business_slug, fault) ==
    LET id == BusinessIdOf(s, business_slug)
        rows == 1..Len(s.reviews)
        latest_review == CHOOSE i \in rows :
                            \A j \in rows : SortKey(s.reviews[j]) <= SortKey(s.reviews[i])
    IN  IF fault = "query" THEN Outcome(s, Raise(DbError))
        ELSE IF id = 0 THEN Outcome(s, Return(None))
        ELSE IF rows = {} THEN Outcome(s, Return(None))
        ELSE Outcome(s, Return(s.reviews[latest_review].created_at))

\* get_latest_review_date(session, business_slug): created_at of the first
\* review of the business in descending order of created_at, or None
get_latest_review_date(s, business_slug, fault) ==
    LET id == BusinessIdOf(s, business_slug)
        rows == {i \in 1..Len(s.reviews) : s.reviews[i].business_id = id}
        latest_review == CHOOSE i \in rows :
                            \A j \in rows : SortKey(s.reviews[j]) <= SortKey(s.reviews[i])
    IN  IF fault = "query" THEN Outcome(s, Raise(DbError))
        ELSE IF id = 0 THEN Outcome(s, Return(None))
        ELSE IF rows = {} THEN Outcome(s, Return(None))
        ELSE Outcome(s, Return(s.reviews[latest_review].created_at))

(* ---------------- database.py: store_business_stats ---------------- *)

\* a JSON number standing where a rating label (a text) is expected
NonText == "<number>"

\* Python's  pattern in label  for the labels the model serves
Contains(label, pattern) ==
    \/ label = pattern
    \/ label = "1 Stars" /\ pattern = "1 Star"
    \/ label = "Rated 5 Stars" /\ pattern = "5 Stars"

\* the bucket the if/elif chain of lines 202-211 assigns the label to, 0 if none
BucketOf(label) ==
    CASE Contains(label, "1 Star")  -> 1
      [] Contains(label, "2 Stars") -> 2
      [] Contains(label, "3 Stars") -> 3
      [] Contains(label, "4 Stars") -> 4
      [] Contains(label, "5 Stars") -> 5
      [] OTHER -> 0

\* the loop over rows: counts[k] is rating_k_count
RECURSIVE RatingCounts(_, _)
RatingCounts(rows, counts) ==
    IF rows = << >> THEN counts
    ELSE LET row == Head(rows)
             k == IF Len(row) >= 2 THEN BucketOf(row[1]) ELSE 0
         IN  RatingCounts(Tail(rows),
                          IF k = 0 THEN counts ELSE [counts EXCEPT ![k] = row[2]])

\* "pattern in rating_label" raises TypeError when the label is not a text
RowsRaise(rows) == \E i \in 1..Len(rows) : Len(rows[i]) >= 2 /\ rows[i][1] = NonText

\* float(text) in tenths, or ValueError
float(text) ==
    CASE text = "4.5" -> [ok |-> TRUE, value |-> 45]
      [] text = "3.5" -> [ok |-> TRUE, value |-> 35]
      [] text = "0.0" -> [ok |-> TRUE, value |-> 0]
      [] OTHER -> [ok |-> FALSE, value |-> 0]

\* variant: the parsed value is never kept, the default stays
AverageRating_KeepsDefault(stats_data) == 0

\* lines 214-219
AverageRating(stats_data) ==
    LET t == Get(stats_data, "reviewAverage", Null)
    IN  IF TruthyText(t) /\ float(t).ok THEN float(t).value ELSE 0

\* an optional number read with get(key)
GetOpt(d, k) == IF k \in DOMAIN d THEN Some(d[k]) ELSE None

\* the field values of lines 224-237 and 243-258
StatsRow(business_id, stats_data, now) ==
    LET monthly_stats == Get(stats_data, "monthlyStats", << >>)
        rows == Get(Get(stats_data, "reviewRatings", << >>), "rows", << >>)
    IN  [business_id |-> business_id,
         total_reviews |-> Get(stats_data, "totalReviews", 0),
         average_rating |-> AverageRating(stats_data),
         trust_index |-> Get(monthly_stats, "trustIndex", 0),
         rating_counts |-> RatingCounts(rows, <<0, 0, 0, 0, 0>>),
         industry_id |-> GetOpt(monthly_stats, "industryId"),
         industry_ranking |-> GetOpt(monthly_stats, "industryRanking"),
         review_count_total |-> GetOpt(monthly_stats, "reviewCountTotal"),
         avg_response_time |-> GetOpt(stats_data, "avgResponseTime"),
         response_rate |-> GetOpt(stats_data, "responseRate"),
         last_updated |-> now]

\* variant: a second snapshot is added as a new row instead of updating
store_business_stats_Appends(s, business_id, stats_data, fault) ==
    LET rows == Get(Get(stats_data, "reviewRatings", << >>), "rows", << >>)
        now == s.clock + 1
        row == StatsRow(business_id, stats_data, now)
    IN  IF fault = "query" THEN Outcome(s, Raise(DbError))
        ELSE IF RowsRaise(rows) THEN Outcome(s, Raise(TypeError))
        ELSE IF fault = "commit" THEN Outcome(s, Raise(DbError))
        ELSE Outcome([s EXCEPT !.stats = Append(@, row), !.clock = now],
                     Return(Len(s.stats) + 1))

\* store_business_stats(session, business_id, stats_data): returns the stats row
store_business_stats(s, business_id, stats_data, fault) ==
    LET existing_stats == StatsRowOf(s, business_id)
        rows == Get(Get(stats_data, "reviewRatings", << >>), "rows", << >>)
        now == s.clock + 1
        row == StatsRow(business_id, stats_data, now)
    IN  IF fault = "query" THEN Outcome(s, Raise(DbError))
        ELSE IF RowsRaise(rows) THEN Outcome(s, Raise(TypeError))
        ELSE IF fault = "commit" THEN Outcome(s, Raise(DbError))
        ELSE IF existing_stats # 0
        THEN Outcome([s EXCEPT !.stats[existing_stats] = row, !.clock = now],
                     Return(existing_stats))
        ELSE Outcome([s EXCEPT !.stats = Append(@, row), !.clock = now],
                     Return(Len(s.stats) + 1))

(* ---------------- cli.py: save_to_database ---------------- *)

\* What goes wrong during one save: init_db fails, or the at-th database
\* operation of the batch (1 = get_or_create_business, 2.. = the store_review
\* calls, then store_business_stats) meets the fault kind; at = 0: nothing.
NoFaults == [init |-> FALSE, at |-> 0, kind |-> "none"]

FaultAt(plan, n) == IF plan.at = n THEN plan.kind ELSE "none"

\* the for loop of lines 71-73 from the n-th database operation on
RECURSIVE StoreReviews(_, _, _, _, _)
StoreReviews(s, reviews, business_id, plan, n) ==
    IF reviews = << >> THEN Outcome(s, Return(TRUE))
    ELSE LET o == store_review(s, Head(reviews), business_id, FaultAt(plan, n))
         IN  IF o.result.kind = "raise" THEN o
             ELSE StoreReviews(o.store, Tail(reviews), business_id, plan, n + 1)

\* variant: the batch is one transaction, a failure restores the store as it
\* was when save_to_database was called
save_to_database_Atomic(s, business_data, reviews, stats_data, plan) ==
    IF plan.init THEN Outcome(s, Return(FALSE))
    ELSE IF IsNone(business_data) THEN Outcome(init_db(s), Return(FALSE))
    ELSE
    LET bd == Val(business_data)
        b == get_or_create_business(init_db(s), bd.slug, bd.name,
                                    Get(bd, "industry_name", Null),
                                    Get(bd, "industry_slug", Null), FaultAt(plan, 1))
        revs == IF IsNone(reviews) THEN << >> ELSE Val(reviews)
        r == StoreReviews(b.store, revs, b.result.value, plan, 2)
        st == store_business_stats(r.store, b.result.value, Val(stats_data),
                                   FaultAt(plan, 2 + Len(revs)))
    IN  IF b.result.kind = "raise" THEN Outcome(s, Return(FALSE))
        ELSE IF r.result.kind = "raise" THEN Outcome(s, Return(FALSE))
        ELSE IF IsNone(stats_data) \/ DOMAIN Val(stats_data) = {}
        THEN Outcome(r.store, Return(TRUE))
        ELSE IF st.result.kind = "raise" THEN Outcome(s, Return(FALSE))
        ELSE Outcome(st.store, Return(TRUE))

\* save_to_database(business_data, reviews, stats_data): True or False.  Each
\* of the operations it calls commits on its own; the rollback of line 84
\* undoes only what the failing operation had not committed.
save_to_database(s, business_data, reviews, stats_data, plan) ==
    IF plan.init THEN Outcome(s, Return(FALSE))
    ELSE IF IsNone(business_data) THEN Outcome(init_db(s), Return(FALSE))
    ELSE
    LET bd == Val(business_data)
        b == get_or_create_business(init_db(s), bd.slug, bd.name,
                                    Get(bd, "industry_name", Null),
                                    Get(bd, "industry_slug", Null), FaultAt(plan, 1))
        revs == IF IsNone(reviews) THEN << >> ELSE Val(reviews)
        r == StoreReviews(b.store, revs, b.result.value, plan, 2)
        st == store_business_stats(r.store, b.result.value, Val(stats_data),
                                   FaultAt(plan, 2 + Len(revs)))
    IN  IF b.result.kind = "raise" THEN Outcome(b.store, Return(FALSE))
        ELSE IF r.result.kind = "raise" THEN Outcome(r.store, Return(FALSE))
        ELSE IF IsNone(stats_data) \/ DOMAIN Val(stats_data) = {}
        THEN Outcome(r.store, Return(TRUE))
        ELSE IF st.result.kind = "raise" THEN Outcome(st.store, Return(FALSE))
        ELSE Outcome(st.store, Return(TRUE))

(* ---------------- reset_db.py: reset_database ---------------- *)

\* what a reset can meet: nothing, Session.close_all() raising, os.remove
\* raising (the file is locked, permission denied), create_all raising
ResetFaults == {"none", "close", "remove", "create"}

\* the outcome of a reset: the store it leaves, what it returned or raised, the
\* calls it made in order
ResetOutcome(s, result, events) == [store |-> s, result |-> result, events |-> events]

\* the store once its file is removed, and once create_all made a new one
Removed(s) == [FreshStore EXCEPT !.clock = s.clock]

\* variant: the file is left in place, create_all finds the tables and the
\* rows are still there
reset_database_NoRemove(s, fault) ==
    IF fault = "create"
    THEN ResetOutcome(s, Raise(DbError), <<"create_all">>)
    ELSE ResetOutcome(init_db(s), Return(TRUE), <<"create_all">>)

\* reset_database(): True, False when the file could not be removed; an error
\* of create_all is not handled
reset_database(s, fault) ==
    LET tried == IF ~s.exists THEN << >>
                 ELSE IF fault = "close" THEN <<"close_all">>
                 ELSE <<"close_all", "remove">>
    IN  IF s.exists /\ fault \in {"close", "remove"}
        THEN ResetOutcome(s, Return(FALSE), tried)
        ELSE IF fault = "create"
        THEN ResetOutcome(Removed(s), Raise(DbError), Append(tried, "create_all"))
        ELSE ResetOutcome(init_db(Removed(s)), Return(TRUE),
                          Append(tried, "create_all"))

(* ---------------- state ---------------- *)

VARIABLES
    pc,             \* "idle": nothing called; "loop": inside the page loop; "done"
    op,             \* the function that was called
    args,           \* its arguments
    remote,         \* remote[p]: the data array page p was served with, None before
    end_page,       \* fetch_reviews_for_business: end_page once resolved
    page,           \* the loop variable
    all_reviews,
    business_data,
    requested,      \* pages the loop requested through make_api_request, in order
    total_pages,    \* outcomes of the get_total_pages calls fetch_reviews made
    page_error,     \* the page whose request raised and the exception, or None
    last_request,   \* outcome of the make_api_request call of a one-request function
    payload,        \* the JSON that call received, or None
    api_calls,      \* number of make_api_request calls the called function made
    ret,            \* what the called function returned or raised
    store,          \* the database: the committed rows of the three tables
    db_prev,        \* the store as it was before the last database operation
    db_call,        \* the last database operation: name, arguments, result
    db_ops,         \* number of database operations called so far
    first_write,    \* review ID -> the row its first successful insert wrote
    last_stats,     \* business id -> the payload of its last successful store
    first_business, \* slug -> the row its first successful creation wrote
    cli_pc,         \* fetch_command: where it stands ("off" outside a run)
    cli_args,       \* fetch_command: the parsed command line
    cli,            \* fetch_command: its local variables
    cli_log,        \* fetch_command: the calls it made, in order
    cli_ret,        \* fetch_command: its return code, None while running
    server          \* fetch_command: the review pages the remote holds per slug

scraperVars == <<pc, op, args, remote, end_page, page, all_reviews, business_data,
                 requested, total_pages, page_error, last_request, payload,
                 api_calls, ret>>

dbVars == <<store, db_prev, db_call, db_ops, first_write, last_stats, first_business>>

cliVars == <<cli_pc, cli_args, cli, cli_log, cli_ret, server>>

vars == <<scraperVars, dbVars, cliVars>>

loopVars == <<end_page, page, all_reviews, business_data, requested,
              total_pages, page_error, remote>>

Pages == 1..MaxPage

Ids == 1..MaxId

NoArgs == [business_slug |-> "", start_page |-> 1, end_page |-> None,
           existing_review_ids |-> None]

NoRequest == [raised |-> FALSE, exc |-> NoExc, tries |-> 0, slept |-> 0,
              events |-> << >>]

\* nothing called yet on the scraper side, the remote holding the pages r
ScraperIdleWith(r) ==
    /\ pc = "idle"
    /\ op = "none"
    /\ args = NoArgs
    /\ remote = r
    /\ end_page = 0
    /\ page = 0
    /\ all_reviews = << >>
    /\ business_data = None
    /\ requested = << >>
    /\ total_pages = << >>
    /\ page_error = None
    /\ last_request = NoRequest
    /\ payload = None
    /\ api_calls = 0
    /\ ret = NoResult

\* nothing called yet, no page of the remote known
ScraperIdle == ScraperIdleWith([p \in Pages |-> None])

NoDbCall == [op |-> "none"]

\* an untouched database side: empty tables, no operation called
DbIdle ==
    /\ store = EmptyStore
    /\ db_prev = EmptyStore
    /\ db_call = NoDbCall
    /\ db_ops = 0
    /\ first_write = [i \in Ids |-> None]
    /\ last_stats = [b \in 1..Cardinality(Slugs) |-> None]
    /\ first_business = [g \in Slugs |-> None]

NoCliArgs == [output_format |-> "csv", force_refresh |-> FALSE,
              reviews_only |-> FALSE, stats_only |-> FALSE,
              start_page |-> 1, end_page |-> None, businesses |-> << >>]

NoCli == [output_format |-> "csv", idx |-> 0, total_reviews_fetched |-> 0,
          slugs_processed |-> 0, slugs_skipped |-> 0,
          business_data_to_save |-> None, stats_data_to_save |-> None,
          reviews_to_save |-> None, fetch_successful |-> FALSE]

\* no fetch_command running
CliOff ==
    /\ cli_pc = "off"
    /\ cli_args = NoCliArgs
    /\ cli = NoCli
    /\ cli_log = << >>
    /\ cli_ret = None
    /\ server = [g \in Slugs |-> [p \in Pages |-> None]]

Init == ScraperIdle /\ DbIdle /\ CliOff

(* ---------------- the one-request functions ---------------- *)

\* make_api_request(url, params) called on its own
CallMakeApiRequest ==
    /\ cli_pc = "off"
    /\ UNCHANGED <<dbVars, cliVars>>
    /\ pc = "idle"
    /\ \E answers \in AnswerSeqs, json \in StatsPayloads :
          LET r == make_api_request(answers)
          IN  /\ last_request' = r
              /\ payload' = IF r.raised THEN None ELSE Some(json)
              /\ ret' = IF r.raised THEN Raise(r.exc) ELSE Return(json)
    /\ op' = "make_api_request"
    /\ args' = NoArgs
    /\ api_calls' = 1
    /\ pc' = "done"
    /\ UNCHANGED loopVars

\* get_total_pages(business_slug) called on its own
CallGetTotalPages ==
    /\ cli_pc = "off"
    /\ UNCHANGED <<dbVars, cliVars>>
    /\ pc = "idle"
    /\ \E slug \in Slugs, answers \in AnswerSeqs, json \in TotalPayloads :
          LET r == make_api_request(answers)
          IN  /\ last_request' = r
              /\ payload' = IF r.raised THEN None ELSE Some(json)
              /\ ret' = get_total_pages(r, json)
              /\ args' = [NoArgs EXCEPT !.business_slug = slug]
    /\ op' = "get_total_pages"
    /\ api_calls' = 1
    /\ pc' = "done"
    /\ UNCHANGED loopVars

\* fetch_business_stats(business_slug)
CallFetchBusinessStats ==
    /\ cli_pc = "off"
    /\ UNCHANGED <<dbVars, cliVars>>
    /\ pc = "idle"
    /\ \E slug \in Slugs, answers \in AnswerSeqs, json \in StatsPayloads :
          LET r == make_api_request(answers)
          IN  /\ last_request' = r
              /\ payload' = IF r.raised THEN None ELSE Some(json)
              /\ ret' = fetch_business_stats(slug, r, json)
              /\ args' = [NoArgs EXCEPT !.business_slug = slug]
    /\ op' = "fetch_business_stats"
    /\ api_calls' = 1
    /\ pc' = "done"
    /\ UNCHANGED loopVars

(* ---------------- fetch_reviews_for_business ---------------- *)

KnownSets == {None} \cup {Some(S) : S \in SUBSET Ids}

FetchResult == Return([business_data |-> business_data, reviews |-> all_reviews])

\* the pages the call will be served: in a run of fetch_command those the
\* remote holds for the business
RemoteOf(business_slug) ==
    IF cli_pc = "off" THEN remote ELSE server[business_slug]

\* variant: the loop starts at page 1 whatever start_page is
FetchReviews_FromOne(business_slug, start_page, end, existing_review_ids) ==
    /\ pc = "idle"
    /\ args' = [business_slug |-> business_slug, start_page |-> start_page,
                end_page |-> Some(end), existing_review_ids |-> existing_review_ids]
    /\ end_page' = end
    /\ page' = 1
    /\ op' = "fetch_reviews_for_business"
    /\ pc' = "loop"
    /\ remote' = RemoteOf(business_slug)
    /\ all_reviews' = << >>
    /\ business_data' = None
    /\ requested' = << >>
    /\ total_pages' = << >>
    /\ page_error' = None
    /\ UNCHANGED <<last_request, payload, api_calls, ret>>

\* variant: get_total_pages is called although end_page is given
FetchReviews_ConsultsTotal(business_slug, start_page, end, existing_review_ids) ==
    /\ pc = "idle"
    /\ args' = [business_slug |-> business_slug, start_page |-> start_page,
                end_page |-> Some(end), existing_review_ids |-> existing_review_ids]
    /\ end_page' = end
    /\ page' = start_page
    /\ op' = "fetch_reviews_for_business"
    /\ pc' = "loop"
    /\ remote' = RemoteOf(business_slug)
    /\ all_reviews' = << >>
    /\ business_data' = None
    /\ requested' = << >>
    /\ total_pages' = <<Return(end)>>
    /\ page_error' = None
    /\ api_calls' = api_calls + 1
    /\ UNCHANGED <<last_request, payload, ret>>

\* lines 99-111 with end_page given: get_total_pages is not called
FetchReviews(business_slug, start_page, end, existing_review_ids) ==
    /\ pc = "idle"
    /\ args' = [business_slug |-> business_slug, start_page |-> start_page,
                end_page |-> Some(end), existing_review_ids |-> existing_review_ids]
    /\ end_page' = end
    /\ page' = start_page
    /\ op' = "fetch_reviews_for_business"
    /\ pc' = "loop"
    /\ remote' = RemoteOf(business_slug)
    /\ all_reviews' = << >>
    /\ business_data' = None
    /\ requested' = << >>
    /\ total_pages' = << >>
    /\ page_error' = None
    /\ UNCHANGED <<last_request, payload, api_calls, ret>>

\* called with end_page given
CallFetchReviews ==
    /\ cli_pc = "off"
    /\ UNCHANGED <<dbVars, cliVars>>
    /\ \E slug \in Slugs, start \in Pages, end \in 0..MaxPage, known \in KnownSets :
          FetchReviews(slug, start, end, known)

\* lines 99-111 with end_page=None: get_total_pages decides
FetchReviewsAll(business_slug, start_page, existing_review_ids, tp) ==
    /\ pc = "idle"
    /\ args' = [business_slug |-> business_slug, start_page |-> start_page,
                end_page |-> None, existing_review_ids |-> existing_review_ids]
    /\ total_pages' = <<tp>>
    /\ IF tp.kind = "raise"
       THEN /\ pc' = "done"
            /\ ret' = tp
            /\ UNCHANGED <<end_page, page>>
       ELSE IF tp.value = 0
       THEN /\ pc' = "done"
            /\ ret' = Return([business_data |-> None, reviews |-> << >>])
            /\ UNCHANGED <<end_page, page>>
       ELSE /\ pc' = "loop"
            /\ end_page' = tp.value
            /\ page' = start_page
            /\ UNCHANGED ret
    /\ op' = "fetch_reviews_for_business"
    /\ api_calls' = api_calls + 1
    /\ remote' = RemoteOf(business_slug)
    /\ all_reviews' = << >>
    /\ business_data' = None
    /\ requested' = << >>
    /\ page_error' = None
    /\ UNCHANGED <<last_request, payload>>

\* variant: a total of 0 pages is treated as one page to fetch
CallFetchReviewsAll_AtLeastOne ==
    /\ cli_pc = "off"
    /\ UNCHANGED <<dbVars, cliVars>>
    /\ pc = "idle"
    /\ \E slug \in Slugs, start \in Pages, known \in KnownSets,
          answers \in AnswerSeqs, json \in TotalPayloads :
          LET tp == get_total_pages(make_api_request(answers), json)
          IN  /\ args' = [business_slug |-> slug, start_page |-> start,
                          end_page |-> None, existing_review_ids |-> known]
              /\ total_pages' = Append(total_pages, tp)
              /\ IF tp.kind = "raise"
                 THEN /\ pc' = "done"
                      /\ ret' = tp
                      /\ UNCHANGED <<end_page, page>>
                 ELSE /\ pc' = "loop"
                      /\ end_page' = IF tp.value = 0 THEN 1 ELSE tp.value
                      /\ page' = start
                      /\ UNCHANGED ret
    /\ op' = "fetch_reviews_for_business"
    /\ api_calls' = api_calls + 1
    /\ UNCHANGED <<remote, all_reviews, business_data, requested, page_error,
                   last_request, payload>>

\* called with end_page=None
CallFetchReviewsAll ==
    /\ cli_pc = "off"
    /\ UNCHANGED <<dbVars, cliVars>>
    /\ \E slug \in Slugs, start \in Pages, known \in KnownSets,
          answers \in AnswerSeqs, json \in TotalPayloads :
          FetchReviewsAll(slug, start, known,
                          get_total_pages(make_api_request(answers), json))

\* variant: the exception of the page request escapes the function
PageFails_Propagates ==
    /\ UNCHANGED <<dbVars, cliVars>>
    /\ pc = "loop"
    /\ page <= end_page
    /\ \E answers \in AnswerSeqs :
          LET r == make_api_request(answers)
          IN  /\ r.raised
              /\ page_error' = Some([page |-> page, exc |-> r.exc])
              /\ ret' = Raise(r.exc)
    /\ requested' = Append(requested, page)
    /\ api_calls' = api_calls + 1
    /\ pc' = "done"
    /\ UNCHANGED <<op, args, remote, end_page, page, all_reviews, business_data,
                   total_pages, last_request, payload>>

\* one iteration whose make_api_request raises: except Exception -> break
PageFails ==
    /\ UNCHANGED <<dbVars, cliVars>>
    /\ pc = "loop"
    /\ page <= end_page
    /\ \E answers \in AnswerSeqs :
          LET r == make_api_request(answers)
          IN  /\ r.raised
              /\ page_error' = Some([page |-> page, exc |-> r.exc])
    /\ requested' = Append(requested, page)
    /\ api_calls' = api_calls + 1
    /\ ret' = FetchResult
    /\ pc' = "done"
    /\ UNCHANGED <<op, args, remote, end_page, page, all_reviews, business_data,
                   total_pages, last_request, payload>>

\* one iteration whose make_api_request returns the page
PageServed ==
    /\ UNCHANGED <<dbVars, cliVars>>
    /\ pc = "loop"
    /\ page <= end_page
    /\ \E answers \in AnswerSeqs,
          reviews_data \in (IF IsNone(remote[page]) THEN PageData ELSE {Val(remote[page])}) :
          LET r == make_api_request(answers)
              bd == IF page = args.start_page /\ IsNone(business_data)
                    THEN Some(BusinessFromPage(args.business_slug, reviews_data))
                    ELSE business_data
              all == all_reviews \o Added(args.existing_review_ids, reviews_data)
          IN  /\ ~r.raised
              /\ remote' = [remote EXCEPT ![page] = Some(reviews_data)]
              /\ business_data' = bd
              /\ all_reviews' = all
              /\ IF StopsAt(args.existing_review_ids, reviews_data)
                 THEN /\ pc' = "done"
                      /\ ret' = Return([business_data |-> bd, reviews |-> all])
                      /\ UNCHANGED page
                 ELSE /\ pc' = "loop"
                      /\ page' = page + 1
                      /\ UNCHANGED ret
    /\ requested' = Append(requested, page)
    /\ api_calls' = api_calls + 1
    /\ UNCHANGED <<op, args, end_page, total_pages, page_error, last_request, payload>>

\* the range is exhausted: return business_data, all_reviews
LoopEnds ==
    /\ UNCHANGED <<dbVars, cliVars>>
    /\ pc = "loop"
    /\ page > end_page
    /\ ret' = FetchResult
    /\ pc' = "done"
    /\ UNCHANGED <<op, args, remote, end_page, page, all_reviews, business_data,
                   requested, total_pages, page_error, last_request, payload,
                   api_calls>>

Next ==
    \/ CallMakeApiRequest
    \/ CallGetTotalPages
    \/ CallFetchBusinessStats
    \/ CallFetchReviews
    \/ CallFetchReviewsAll
    \/ PageFails
    \/ PageServed
    \/ LoopEnds

Spec == Init /\ [][Next]_vars

(* ---------------- a remote that lists newest first ---------------- *)

\* the listings of a business: its review IDs, no ID twice, newest first
Listings ==
    {l \in UNION {[1..n -> Ids] : n \in 0..MaxId} :
        \A i, j \in 1..Len(l) : i # j => l[i] # l[j]}

\* the listing served in pages of size reviews ("count" of line 114)
Paginate(l, size) ==
    [p \in Pages |->
        Some([i \in 1..(IF Len(l) >= p * size THEN size
                        ELSE IF Len(l) > (p - 1) * size THEN Len(l) - (p - 1) * size
                        ELSE 0) |-> ReviewOf(l[(p - 1) * size + i])])]

\* the review IDs the remote lists, page after page
RECURSIVE ListedFrom(_)
ListedFrom(p) ==
    IF p > MaxPage THEN << >>
    ELSE [i \in 1..Len(Val(remote[p])) |-> Val(remote[p])[i].id] \o ListedFrom(p + 1)

\* the IDs of the oldest k reviews of a listing
Oldest(l, k) == {l[i] : i \in (Len(l) - k + 1)..Len(l)}

\* the last page of the remote that carries a review, 1 if none does
LastPage ==
    IF \E p \in Pages : Val(remote[p]) # << >>
    THEN CHOOSE p \in Pages : /\ Val(remote[p]) # << >>
                              /\ \A q \in Pages : q > p => Val(remote[q]) = << >>
    ELSE 1

\* the remote before the call: some listing in pages of some size
InitNewestFirst ==
    /\ \E l \in Listings, size \in 1..MaxPerPage : ScraperIdleWith(Paginate(l, size))
    /\ DbIdle
    /\ CliOff

\* fetch_reviews_for_business called from page 1 to the last page with the
\* IDs of the oldest k reviews as known IDs (none passed, or the empty set,
\* for k = 0)
CallFetchNewestFirst ==
    /\ cli_pc = "off"
    /\ UNCHANGED <<dbVars, cliVars>>
    /\ \E slug \in Slugs, k \in 0..Len(ListedFrom(1)) :
          \E known \in {None, Some(Oldest(ListedFrom(1), k))} :
              /\ IsNone(known) => k = 0
              /\ FetchReviews(slug, 1, LastPage, known)

NextNewestFirst ==
    \/ CallFetchNewestFirst
    \/ PageFails
    \/ PageServed
    \/ LoopEnds

\* one call against a remote that lists newest first and does not change
SpecNewestFirst == InitNewestFirst /\ [][NextNewestFirst]_vars

NextRequest == CallMakeApiRequest

\* one call of make_api_request, whatever the remote answers
SpecRequest == Init /\ [][NextRequest]_vars

(* ---------------- the database operations as steps ---------------- *)

DbTitles == {"first", "second"}

DbNames == {"Acme Ltd", "Renamed"}

\* records of one review ID with both date fields: both valid, the first not
\* a timestamp, the second not a date
DbDatedPayloads ==
    {[id |-> 2, review_title |-> "dated", replied |-> 1,
      created_at |-> c, author_created_date |-> a] :
        c \in {"2024-02-01 10:00:00"}, a \in {"2020-05-05", "05/05/2020"}}
    \cup {[id |-> 2, review_title |-> "dated", replied |-> 1,
           created_at |-> "yesterday", author_created_date |-> "2020-05-05"]}

\* review records as the callers pass them: an ID, a title that tells two
\* payloads of one ID apart, a date; and a record without an ID
DbReviewPayloads ==
    {[id |-> i, review_title |-> t, created_at |-> "2024-01-01 10:00:00"] :
        i \in Ids, t \in DbTitles}
    \cup {[review_title |-> "no id"]}
    \cup DbDatedPayloads

\* statistics payloads: a full one; one with an unparsable average, an unknown
\* label and a row of one element; one whose rating label is not a text; one
\* with an empty average; one with nothing but the total
DbStatsPayloads ==
    {[totalReviews |-> 12, reviewAverage |-> "4.5",
      monthlyStats |-> [trustIndex |-> 7, industryId |-> 3],
      reviewRatings |-> [rows |-> <<<<"1 Star", 2>>, <<"5 Stars", 30>>>>]],
     [totalReviews |-> 20, reviewAverage |-> "n/a", avgResponseTime |-> 9,
      reviewRatings |-> [rows |-> <<<<"2 Stars", 3>>, <<"Unrated", 9>>, <<"3 Stars">>>>]],
     [totalReviews |-> 1,
      reviewRatings |-> [rows |-> <<<<NonText, 4>>>>]],
     [totalReviews |-> 5, reviewAverage |-> ""],
     [totalReviews |-> 6]}

\* history: the row of each review ID as its first insert wrote it
FirstWrites(fw, s) ==
    [i \in DOMAIN fw |->
        IF IsNone(fw[i]) /\ ReviewRowOf(s, i) # 0
        THEN Some(s.reviews[ReviewRowOf(s, i)]) ELSE fw[i]]

\* history: the row of each slug as its creation wrote it
FirstBusinesses(fb, s) ==
    [g \in DOMAIN fb |->
        IF IsNone(fb[g]) /\ BusinessIdOf(s, g) # 0
        THEN Some(s.businesses[BusinessIdOf(s, g)]) ELSE fb[g]]

\* one database operation done: the store it left, what is recorded of it
DbRecord(o, call) ==
    /\ store' = o.store
    /\ db_prev' = store
    /\ db_call' = call
    /\ db_ops' = db_ops + 1
    /\ first_write' = FirstWrites(first_write, o.store)
    /\ first_business' = FirstBusinesses(first_business, o.store)

\* a database operation called on its own
DbStep(o, call) ==
    /\ cli_pc = "off"
    /\ pc = "idle"
    /\ DbRecord(o, call)
    /\ UNCHANGED <<scraperVars, cliVars>>

CallGetOrCreateBusiness ==
    /\ db_ops < MaxDbOps
    /\ \E slug \in Slugs, name \in DbNames, fault \in Faults :
        LET o == get_or_create_business(store, slug, name, Null, Null, fault)
        IN  /\ DbStep(o, [op |-> "get_or_create_business", slug |-> slug,
                          name |-> name, result |-> o.result])
            /\ UNCHANGED last_stats

CallStoreReview ==
    /\ db_ops < MaxDbOps
    /\ \E review_data \in DbReviewPayloads, business_id \in 1..Len(store.businesses),
       fault \in Faults :
        LET o == store_review(store, review_data, business_id, fault)
        IN  /\ DbStep(o, [op |-> "store_review", review_data |-> review_data,
                          business_id |-> business_id, fault |-> fault,
                          result |-> o.result])
            /\ UNCHANGED last_stats

CallStoreBusinessStats ==
    /\ db_ops < MaxDbOps
    /\ \E stats_data \in DbStatsPayloads, business_id \in 1..Len(store.businesses),
       fault \in Faults :
        LET o == store_business_stats(store, business_id, stats_data, fault)
        IN  /\ DbStep(o, [op |-> "store_business_stats", stats_data |-> stats_data,
                          business_id |-> business_id, result |-> o.result])
            /\ last_stats' = IF o.result.kind = "return"
                             THEN [last_stats EXCEPT ![business_id] = Some(stats_data)]
                             ELSE last_stats

CallGetExistingReviewIds ==
    /\ db_ops < MaxDbOps
    /\ \E business_slug \in Slugs, fault \in {"none", "query"} :
        LET o == get_existing_review_ids(store, business_slug, fault)
        IN  /\ DbStep(o, [op |-> "get_existing_review_ids", fault |-> fault,
                          business_slug |-> business_slug, result |-> o.result])
            /\ UNCHANGED last_stats

CallGetLatestReviewDate ==
    /\ db_ops < MaxDbOps
    /\ \E business_slug \in Slugs, fault \in {"none", "query"} :
        LET o == get_latest_review_date(store, business_slug, fault)
        IN  /\ DbStep(o, [op |-> "get_latest_review_date", fault |-> fault,
                          business_slug |-> business_slug, result |-> o.result])
            /\ UNCHANGED last_stats

\* the batches save_to_database is given: the records of the first n IDs
DbBatches ==
    {[i \in 1..n |-> [id |-> i, review_title |-> "first",
                      created_at |-> "2024-01-01 10:00:00"]] : n \in 0..MaxId}

\* what can go wrong during one save: nothing, init_db, a query error at any
\* database operation of the batch, a commit error at the business row or at
\* the first review
FaultPlans ==
    {NoFaults, [init |-> TRUE, at |-> 0, kind |-> "none"]}
    \cup {[init |-> FALSE, at |-> n, kind |-> "query"] : n \in 1..(MaxId + 2)}
    \cup {[init |-> FALSE, at |-> n, kind |-> "commit"] : n \in 1..2}

\* the stats a batch carries: none, a full payload, one that makes
\* store_business_stats raise
SaveStats ==
    {None} \cup {Some(d) : d \in {d \in DbStatsPayloads :
                                     /\ "reviewRatings" \in DOMAIN d
                                     /\ "avgResponseTime" \notin DOMAIN d}}

\* what is recorded of a save_to_database call
SaveCall(slug, batch, stats_data, plan, o) ==
    [op |-> "save_to_database", slug |-> slug, reviews |-> batch,
     stats_data |-> stats_data, plan |-> plan, result |-> o.result]

\* history: the stats payload a successful save stored last
SavedStats(o, slug, stats_data) ==
    IF o.result.value /\ ~IsNone(stats_data) /\ DOMAIN Val(stats_data) # {}
    THEN [last_stats EXCEPT ![BusinessIdOf(o.store, slug)] = stats_data]
    ELSE last_stats

CallSaveToDatabase ==
    /\ db_ops < MaxSaves
    /\ \E slug \in Slugs, batch \in DbBatches,
       stats_data \in SaveStats,
       plan \in FaultPlans :
        LET bd == Some([slug |-> slug, name |-> "Acme Ltd"])
            o == save_to_database(store, bd, Some(batch), stats_data, plan)
        IN  /\ DbStep(o, SaveCall(slug, batch, stats_data, plan, o))
            /\ last_stats' = SavedStats(o, slug, stats_data)

NextDB ==
    \/ CallGetOrCreateBusiness
    \/ CallStoreReview
    \/ CallStoreBusinessStats
    \/ CallGetExistingReviewIds
    \/ CallGetLatestReviewDate

\* the database operations called in any order on an initially empty store
SpecDB == Init /\ [][NextDB]_vars

NextSave == CallSaveToDatabase

\* reset_database() called by reset_command
CallResetDatabase ==
    /\ db_ops < MaxSaves
    /\ cli_pc = "off"
    /\ pc = "idle"
    /\ \E fault \in ResetFaults :
        LET o == reset_database(store, fault)
        IN  /\ store' = o.store
            /\ db_call' = [op |-> "reset_database", fault |-> fault,
                           events |-> o.events, result |-> o.result]
    /\ db_prev' = store
    /\ db_ops' = db_ops + 1
    /\ first_write' = [i \in Ids |-> None]
    /\ last_stats' = [b \in 1..Cardinality(Slugs) |-> None]
    /\ first_business' = [g \in Slugs |-> None]
    /\ UNCHANGED <<scraperVars, cliVars>>

\* before the first command: a database file left by earlier runs, or none
InitReset ==
    /\ ScraperIdle
    /\ CliOff
    /\ store \in {EmptyStore, FreshStore}
    /\ db_prev = store
    /\ db_call = NoDbCall
    /\ db_ops = 0
    /\ first_write = [i \in Ids |-> None]
    /\ last_stats = [b \in 1..Cardinality(Slugs) |-> None]
    /\ first_business = [g \in Slugs |-> None]

NextReset ==
    \/ CallSaveToDatabase
    \/ CallResetDatabase

\* saves and resets in any order
SpecReset == InitReset /\ [][NextReset]_vars

\* batches saved one after the other on an initially empty store
SpecSave == Init /\ [][NextSave]_vars

\* a review record of the remote with the ID i
Dated(i) == [id |-> i, review_title |-> "first", created_at |-> "2024-01-01 10:00:00"]

\* batches with records that carry no usable ID: the ID missing, the ID zero
MixedBatches ==
    {<<[review_title |-> "no id"], Dated(1)>>,
     <<Dated(1), [id |-> 0, review_title |-> "zero"], Dated(2)>>,
     <<Dated(2), Dated(1)>>,
     <<[id |-> 0, review_title |-> "zero"]>>}

\* what can go wrong with the insert of one review of a batch
InsertFaults ==
    {NoFaults} \cup {[init |-> FALSE, at |-> n, kind |-> "commit"] : n \in 2..(MaxId + 2)}

\* save_to_database called with a batch of reviews and no stats
CallSaveMixed ==
    /\ db_ops < MaxSaves
    /\ \E slug \in Slugs, batch \in MixedBatches, plan \in InsertFaults :
        LET bd == Some([slug |-> slug, name |-> "Acme Ltd"])
            o == save_to_database(store, bd, Some(batch), None, plan)
        IN  /\ DbStep(o, SaveCall(slug, batch, None, plan, o))
            /\ UNCHANGED last_stats

NextStore ==
    \/ CallSaveMixed
    \/ CallStoreReview

\* batches of reviews saved, and single reviews stored, on an initially empty
\* store
SpecStore == Init /\ [][NextStore]_vars

(* ---------------- cli.py: fetch_command ---------------- *)

\* the business lists of a run: none, one business twice, two businesses
CliLists == {<< >>, <<"acme", "acme">>, <<"acme", "zeta">>}

\* the command lines of a run: --force-refresh with the db format only (it is
\* read for no other), --stats-only and --reviews-only not together
CliConfigs ==
    {c \in [output_format : {"db", "csv", "json"}, force_refresh : BOOLEAN,
            reviews_only : BOOLEAN, stats_only : BOOLEAN, start_page : {1},
            end_page : {None}, businesses : CliLists] :
        /\ c.force_refresh => c.output_format = "db"
        /\ ~(c.reviews_only /\ c.stats_only)}

\* the remote of a run: acme has two pages of one review each, newest first,
\* zeta one page of one review
CliServer ==
    [g \in Slugs |->
        [p \in Pages |->
            IF g = "acme" /\ p = 1 THEN Some(<<ReviewOf(2)>>)
            ELSE IF g = "acme" /\ p = 2 THEN Some(<<ReviewOf(1)>>)
            ELSE IF g = "zeta" /\ p = 1 THEN Some(<<ReviewOf(3)>>)
            ELSE Some(<< >>)]]

\* the last_page the remote reports for a business
LastPageOf(pages) ==
    IF \E p \in Pages : Val(pages[p]) # << >>
    THEN CHOOSE p \in Pages : /\ Val(pages[p]) # << >>
                              /\ \A q \in Pages : q > p => Val(pages[q]) = << >>
    ELSE 1

\* the stats payload the remote serves in a run
CliStatsPayloads ==
    {j \in StatsPayloads : "industryName" \in DOMAIN Get(j, "monthlyStats", << >>)}

\* what can go wrong in the save of one business of a run
CliFaultPlans ==
    {NoFaults, [init |-> TRUE, at |-> 0, kind |-> "none"]}
    \cup {[init |-> FALSE, at |-> n, kind |-> "query"] : n \in 1..3}

\* fetch_command(args) is entered
InitCli ==
    /\ ScraperIdle
    /\ DbIdle
    /\ cli_pc = "start"
    /\ cli_args \in CliConfigs
    /\ cli = [NoCli EXCEPT !.output_format = cli_args.output_format]
    /\ cli_log = << >>
    /\ cli_ret = None
    /\ server = CliServer

\* an entry of the log of calls
Event(ev, slug, ok) == [ev |-> ev, slug |-> slug, ok |-> ok]

\* the business the loop of line 255 is at
business_slug == cli_args.businesses[cli.idx]

\* variant: an exception ends the run with return code 1
Except_Aborts(ev) ==
    /\ cli' = [cli EXCEPT !.slugs_skipped = @ + 1]
    /\ cli_log' = cli_log \o <<Event(ev, business_slug, FALSE),
                               Event("except", business_slug, FALSE)>>
    /\ cli_pc' = "returned"
    /\ cli_ret' = Some(1)
    /\ UNCHANGED <<server, cli_args>>

\* variant: a business that met an exception is not counted
Except_NotCounted(ev) ==
    /\ cli_log' = cli_log \o <<Event(ev, business_slug, FALSE),
                               Event("except", business_slug, FALSE)>>
    /\ cli_pc' = "business"
    /\ UNCHANGED <<server, cli_args, cli_ret, cli>>

\* lines 391-394: the exception is logged, the business counted as skipped
Except(ev) ==
    /\ cli' = [cli EXCEPT !.slugs_skipped = @ + 1]
    /\ cli_log' = cli_log \o <<Event(ev, business_slug, FALSE),
                               Event("except", business_slug, FALSE)>>
    /\ cli_pc' = "business"
    /\ UNCHANGED <<server, cli_args, cli_ret>>

\* variant: the db format is kept when init_db fails
SinkAfterInit_Keeps(init_fails) == cli_args.output_format

\* lines 234-242: args.output_format after init_db was tried
SinkAfterInit(init_fails) == IF init_fails THEN "csv" ELSE cli_args.output_format

\* lines 233-253: init_db for the db format, CSV on failure; the list
CliStart ==
    /\ cli_pc = "start"
    /\ \E init_fails \in BOOLEAN :
          /\ cli_args.output_format # "db" => ~init_fails
          /\ cli' = [cli EXCEPT !.output_format = SinkAfterInit(init_fails)]
          /\ cli_log' = IF cli_args.output_format = "db"
                        THEN <<Event("init_db", "", ~init_fails)>> ELSE << >>
    /\ IF cli_args.businesses = << >>
       THEN cli_ret' = Some(1) /\ cli_pc' = "returned"
       ELSE cli_pc' = "business" /\ UNCHANGED cli_ret
    /\ UNCHANGED <<server, cli_args, scraperVars, dbVars>>

\* lines 255-262: the next business of the list, its variables reset
CliBeginBusiness ==
    /\ cli_pc = "business"
    /\ cli.idx < Len(cli_args.businesses)
    /\ cli' = [cli EXCEPT !.idx = @ + 1,
                          !.business_data_to_save = None,
                          !.stats_data_to_save = None,
                          !.reviews_to_save = None,
                          !.fetch_successful = FALSE]
    /\ cli_pc' = "stats"
    /\ cli_log' = Append(cli_log, Event("begin", cli_args.businesses[cli.idx + 1], TRUE))
    /\ UNCHANGED <<server, cli_args, cli_ret, scraperVars, dbVars>>

\* lines 396-401: the list is exhausted, the summary is logged
CliSummary ==
    /\ cli_pc = "business"
    /\ cli.idx = Len(cli_args.businesses)
    /\ cli_ret' = Some(0)
    /\ cli_pc' = "returned"
    /\ UNCHANGED <<server, cli_args, cli, cli_log, scraperVars, dbVars>>

\* lines 266-284: the stats fetch, unless --reviews-only
CliFetchStats ==
    /\ cli_pc = "stats"
    /\ IF cli_args.reviews_only
       THEN /\ cli_pc' = "reviews"
            /\ UNCHANGED <<server, cli_args, cli, cli_log, cli_ret>>
       ELSE \E result \in {fetch_business_stats(business_slug, make_api_request(a), j) :
                              a \in AnswerSeqs, j \in CliStatsPayloads} :
               IF result.kind = "raise" THEN Except("stats")
               ELSE LET failed == /\ IsNone(result.value.business_data)
                                  /\ IsNone(result.value.stats_data)
                    IN  /\ cli' = IF failed THEN cli
                                  ELSE [cli EXCEPT
                                          !.fetch_successful = TRUE,
                                          !.business_data_to_save = result.value.business_data,
                                          !.stats_data_to_save = result.value.stats_data]
                        /\ cli_log' = Append(cli_log, Event("stats", business_slug, ~failed))
                        /\ cli_pc' = "reviews"
                        /\ UNCHANGED <<server, cli_args, cli_ret>>
    /\ UNCHANGED <<scraperVars, dbVars>>

\* variant: the known IDs are read whenever the sink is the database
ReadsKnownIds_IgnoresForce == cli.output_format = "db"

\* line 291: are the known review IDs read from the store?
ReadsKnownIds == cli.output_format = "db" /\ ~cli_args.force_refresh

\* lines 300-305: fetch_reviews_for_business is called
StartFetch(existing_review_ids) ==
    IF IsNone(cli_args.end_page)
    THEN \E tp \in {get_total_pages(make_api_request(a),
                                      [data |-> << >>,
                                       last_page |-> LastPageOf(server[business_slug])]) :
                       a \in AnswerSeqs} :
            FetchReviewsAll(business_slug, cli_args.start_page, existing_review_ids, tp)
    ELSE FetchReviews(business_slug, cli_args.start_page, Val(cli_args.end_page),
                      existing_review_ids)

\* lines 288-305: the known IDs are read if they are to be, the reviews
\* fetch starts, unless --stats-only
CliStartReviews ==
    /\ cli_pc = "reviews"
    /\ IF cli_args.stats_only
       THEN /\ cli_pc' = "post"
            /\ UNCHANGED <<server, cli_args, cli, cli_log, cli_ret, scraperVars>>
       ELSE IF ReadsKnownIds
       THEN \E fault \in {"none", "query"} :
               LET o == get_existing_review_ids(store, business_slug, fault)
               IN  IF o.result.kind = "raise"
                   THEN Except("ids") /\ UNCHANGED scraperVars
                   ELSE /\ StartFetch(Some(o.result.value))
                        /\ cli_log' = Append(cli_log, Event("ids", business_slug, TRUE))
                        /\ cli_pc' = "fetching"
                        /\ UNCHANGED <<server, cli_args, cli, cli_ret>>
       ELSE /\ StartFetch(None)
            /\ cli_pc' = "fetching"
            /\ UNCHANGED <<server, cli_args, cli, cli_log, cli_ret>>
    /\ UNCHANGED dbVars

\* variant: the test is "temp_reviews is None", which a list never is
ReviewsFailed_ListIsNone(temp_business_data_reviews, temp_reviews) == FALSE

\* line 308: temp_business_data_reviews is None and not temp_reviews
ReviewsFailed(temp_business_data_reviews, temp_reviews) ==
    IsNone(temp_business_data_reviews) /\ temp_reviews = << >>

\* variant: the total is that of the last business
TotalAfter_Last(total_reviews_fetched, reviews_to_save) == Len(reviews_to_save)

\* lines 325-328: total_reviews_fetched after a reviews fetch that returned
TotalAfter(total_reviews_fetched, reviews_to_save) ==
    IF reviews_to_save # << >> THEN total_reviews_fetched + Len(reviews_to_save)
    ELSE total_reviews_fetched

\* lines 307-328: what fetch_reviews_for_business returned, or raised
CliReviewsFetched ==
    /\ cli_pc = "fetching"
    /\ pc = "done"
    /\ IF ret.kind = "raise" THEN Except("reviews")
       ELSE LET temp_business_data_reviews == ret.value.business_data
                temp_reviews == ret.value.reviews
                failed == ReviewsFailed(temp_business_data_reviews, temp_reviews)
            IN  /\ cli' = IF failed THEN cli
                          ELSE [cli EXCEPT
                                  !.fetch_successful = TRUE,
                                  !.reviews_to_save = Some(temp_reviews),
                                  !.business_data_to_save =
                                      IF IsNone(@) THEN temp_business_data_reviews ELSE @,
                                  !.total_reviews_fetched = TotalAfter(@, temp_reviews)]
                /\ cli_log' = Append(cli_log, Event("reviews", business_slug, ~failed))
                /\ cli_pc' = "post"
                /\ UNCHANGED <<server, cli_args, cli_ret>>
    /\ pc' = "idle"
    /\ op' = "none"
    /\ args' = NoArgs
    /\ end_page' = 0
    /\ page' = 0
    /\ all_reviews' = << >>
    /\ business_data' = None
    /\ requested' = << >>
    /\ total_pages' = << >>
    /\ page_error' = None
    /\ ret' = NoResult
    /\ UNCHANGED <<remote, last_request, payload, api_calls, dbVars, server>>

\* lines 341-349: the placeholder business record
Placeholder(slug) ==
    [slug |-> slug, name |-> slug, industry_name |-> Null, industry_slug |-> Null]

\* lines 384 and 389: the business is counted after its save returned
Counted(final_business_data, ev, ok) ==
    /\ cli' = [cli EXCEPT !.slugs_processed = @ + 1,
                          !.slugs_skipped = @ + 1,
                          !.business_data_to_save = final_business_data]
    /\ cli_log' = Append(cli_log, Event(ev, business_slug, ok))
    /\ cli_pc' = "business"
    /\ UNCHANGED <<server, cli_args, cli_ret>>

\* variant: the sink is called only when reviews were fetched
ShouldSave_NeedsReviews(final_business_data, stats, reviews) == ~IsNone(reviews)

\* lines 353-355: should_save
ShouldSave(final_business_data, stats, reviews) ==
    \/ ~IsNone(final_business_data)
    \/ ~IsNone(stats)
    \/ ~IsNone(reviews)

\* lines 333-390: skip the business if nothing was fetched, else save what
\* was fetched to the sink and count the business
CliSave ==
    /\ cli_pc = "post"
    /\ IF ~cli.fetch_successful
       THEN /\ cli' = [cli EXCEPT !.slugs_skipped = @ + 1]
            /\ cli_log' = Append(cli_log, Event("skip", business_slug, FALSE))
            /\ cli_pc' = "business"
            /\ UNCHANGED <<server, cli_args, cli_ret, dbVars>>
       ELSE
       LET stats == cli.stats_data_to_save
           reviews == cli.reviews_to_save
           needs == /\ IsNone(cli.business_data_to_save)
                    /\ \/ ~IsNone(stats)
                       \/ ~IsNone(reviews) /\ Len(Val(reviews)) > 0
           final_business_data == IF needs THEN Some(Placeholder(business_slug))
                                  ELSE cli.business_data_to_save
           should_save == ShouldSave(final_business_data, stats, reviews)
       IN  IF ~should_save
           THEN /\ cli' = [cli EXCEPT !.slugs_skipped = @ + 1]
                /\ cli_log' = Append(cli_log, Event("nothing", business_slug, FALSE))
                /\ cli_pc' = "business"
                /\ UNCHANGED <<server, cli_args, cli_ret, dbVars>>
           ELSE IF cli.output_format = "db"
           THEN \E plan \in CliFaultPlans :
                   LET o == save_to_database(store, final_business_data, reviews,
                                             stats, plan)
                   IN  /\ DbRecord(o, SaveCall(business_slug,
                                               IF IsNone(reviews) THEN << >> ELSE Val(reviews),
                                               stats, plan, o))
                       /\ last_stats' = SavedStats(o, business_slug, stats)
                       /\ Counted(final_business_data, "save_db", o.result.value)
           ELSE \E io_fails \in BOOLEAN :
                   /\ IF io_fails THEN Except("save_" \o cli.output_format)
                      ELSE Counted(final_business_data, "save_" \o cli.output_format, TRUE)
                   /\ UNCHANGED dbVars
    /\ UNCHANGED scraperVars

NextCli ==
    \/ CliStart
    \/ CliBeginBusiness
    \/ CliFetchStats
    \/ CliStartReviews
    \/ PageFails
    \/ PageServed
    \/ LoopEnds
    \/ CliReviewsFetched
    \/ CliSave
    \/ CliSummary

\* one run of fetch_command on an initially empty store
SpecCli == InitCli /\ [][NextCli]_vars

(* ================= properties ================= *)

InFetch == op = "fetch_reviews_for_business"

\* the known-ID set of the call as a set (None counts as empty)
KnownIds == IF IsNone(args.existing_review_ids) THEN {} ELSE Val(args.existing_review_ids)

\* page p was fetched successfully in this call
Served(p) == ~IsNone(remote[p])

\* the review IDs page p carried
IdsOn(p) == {Val(remote[p])[i].id : i \in 1..Len(Val(remote[p]))}

AllKnownPage(p) == Served(p) /\ IdsOn(p) # {} /\ IdsOn(p) \subseteq KnownIds

MixedPage(p) == Served(p) /\ IdsOn(p) \cap KnownIds # {} /\ IdsOn(p) \ KnownIds # {}

RequestedPages == {requested[i] : i \in 1..Len(requested)}

\* the new reviews of the served pages among ps, concatenated in the order of ps
RECURSIVE NewOnPages(_)
NewOnPages(ps) ==
    IF ps = << >> THEN << >>
    ELSE (IF Served(Head(ps))
          THEN SelectSeq(Val(remote[Head(ps)]), LAMBDA rv : rv.id \notin KnownIds)
          ELSE << >>) \o NewOnPages(Tail(ps))

C2_MixedPageContinues ==
    InFetch =>
        \A p \in RequestedPages :
            (MixedPage(p) /\ p < end_page) =>
                \/ pc = "loop" /\ page = p + 1 /\ ret = NoResult
                \/ p + 1 \in RequestedPages

\* C2 witness: the page after a mixed page was requested
C2_Witness ==
    /\ InFetch
    /\ \E p \in RequestedPages : MixedPage(p) /\ p + 1 \in RequestedPages

\* C3: the returned list is the concatenation, in page order and within-page
\* order, of the reviews of the visited pages whose ID is not known; pages are
\* visited in ascending order.
C3_ReturnedReviews ==
    (InFetch /\ pc = "done" /\ ret.kind = "return") =>
        /\ ret.value.reviews = NewOnPages(requested)
        /\ \A i, j \in 1..Len(requested) : i < j => requested[i] < requested[j]
        /\ \A i \in 1..Len(ret.value.reviews) : ret.value.reviews[i].id \notin KnownIds

\* C3 witness: a result of two pages from which a known review was left out
C3_Witness ==
    /\ InFetch /\ pc = "done" /\ ret.kind = "return"
    /\ Len(ret.value.reviews) >= 2
    /\ \E p, q \in RequestedPages :
          /\ p < q
          /\ MixedPage(p)
          /\ Served(q) /\ IdsOn(q) \ KnownIds # {}

\* C4: partial-page failure.  When the request for page p fails, p is the last
\* page requested, and the call returns normally the business data and the
\* new reviews accumulated from the pages before p.
C4_PartialPageFailure ==
    (InFetch /\ ~IsNone(page_error)) =>
        /\ pc = "done"
        /\ requested[Len(requested)] = Val(page_error).page
        /\ ret.kind = "return"
        /\ ret.value.reviews = NewOnPages(SubSeq(requested, 1, Len(requested) - 1))
        /\ ret.value.reviews = all_reviews
        /\ ret.value.business_data = business_data

\* C4 witness: a failure after reviews were accumulated and before end_page
C4_Witness ==
    /\ InFetch /\ ~IsNone(page_error)
    /\ Val(page_error).page < end_page
    /\ Len(all_reviews) > 0
    /\ KnownIds # {}

\* no page fetched in this call carried a review
NoReviewServed == \A p \in Pages : Served(p) => Val(remote[p]) = << >>

MinimalBusiness(slug) ==
    [slug |-> slug, name |-> slug, industry_name |-> Null, industry_slug |-> Null]

\* C5 as stated: whenever the remote was asked and showed no review, the call
\* returns an empty list and a non-null business info named after the slug.
C5_AsStated ==
    (InFetch /\ pc = "done" /\ api_calls >= 1 /\ NoReviewServed) =>
        /\ ret.kind = "return"
        /\ ret.value.reviews = << >>
        /\ ~IsNone(ret.value.business_data)
        /\ Val(ret.value.business_data).name = args.business_slug

\* C5 amended: a returned review list is always a list; when no fetched page
\* carried a review the list is empty, and the business info is the minimal
\* record named after the slug exactly when the start_page request succeeded
\* (it is None otherwise).
C5_ZeroReviews ==
    (InFetch /\ pc = "done" /\ ret.kind = "return") =>
        /\ ret.value.reviews \in Seq(Reviews)
        /\ NoReviewServed =>
              /\ ret.value.reviews = << >>
              /\ ret.value.business_data =
                    IF Served(args.start_page)
                    THEN Some(MinimalBusiness(args.business_slug))
                    ELSE None

\* C5 witness: several empty pages were fetched, the first of them start_page
C5_Witness ==
    /\ InFetch /\ pc = "done" /\ ret.kind = "return"
    /\ NoReviewServed
    /\ Served(args.start_page)
    /\ Len(requested) >= 2
    /\ ret.value.business_data = Some(MinimalBusiness(args.business_slug))

\* C6: with end_page omitted and get_total_pages returning 0, the call is over
\* with (None, []) and made no page request.
C6_ZeroTotalPages ==
    (InFetch /\ IsNone(args.end_page) /\ total_pages = <<Return(0)>>) =>
        /\ pc = "done"
        /\ ret = Return([business_data |-> None, reviews |-> << >>])
        /\ requested = << >>
        /\ \A p \in Pages : ~Served(p)

\* C6 witness
C6_Witness ==
    /\ InFetch /\ IsNone(args.end_page) /\ total_pages = <<Return(0)>>
    /\ pc = "done" /\ api_calls = 1

\* C7: get_total_pages returns 0 for a 404 and for any other HTTP error
\* status, and the reported last_page on success.
C7_TotalPages ==
    (op = "get_total_pages" /\ pc = "done") =>
        /\ (last_request.raised /\ last_request.exc.type = "HTTPError") =>
              ret = Return(0)
        /\ (~last_request.raised /\ "last_page" \in DOMAIN Val(payload)) =>
              ret = Return(Val(payload).last_page)

\* C7 witness: a 404 and a 0
C7_Witness ==
    /\ op = "get_total_pages" /\ pc = "done"
    /\ last_request.raised /\ last_request.exc.status_code = 404
    /\ ret = Return(0)

\* the number of the HTTP attempt that the i-th event belongs to
AttemptNo(e, i) == Cardinality({j \in 1..i : e[j] \in Answers})

RequestDone == op = "make_api_request" /\ pc = "done"

\* C8 as stated: a 4xx answer is never retried, it ends the call at once.
C8_AsStated ==
    RequestDone =>
        LET e == last_request.events
        IN  \A i \in 1..Len(e) :
                e[i] = "404" =>
                    /\ last_request.raised
                    /\ last_request.exc.status_code = 404
                    /\ last_request.tries = AttemptNo(e, i)

\* C8 amended: a 4xx answer is retried like any other request error.  On an
\* attempt before the MAX_RETRIES-th it is followed by a backoff and a
\* further attempt; on the MAX_RETRIES-th the HTTPError is surfaced.
C8_RetriesOn4xx ==
    RequestDone =>
        LET e == last_request.events
        IN  \A i \in 1..Len(e) :
                e[i] = "404" =>
                    IF AttemptNo(e, i) < MAX_RETRIES
                    THEN /\ e[i + 1] = "raise" /\ e[i + 2] = "backoff"
                         /\ e[i + 3] \in Answers
                         /\ last_request.tries > AttemptNo(e, i)
                    ELSE /\ last_request.raised
                         /\ last_request.exc = [type |-> "HTTPError", status_code |-> 404]
                         /\ last_request.tries = MAX_RETRIES

\* C8 witness: a server that keeps answering 404 got MAX_RETRIES attempts
C8_Witness ==
    /\ RequestDone
    /\ Count(last_request.events, "404") = MAX_RETRIES
    /\ last_request.raised

Is2xx(a) == a \in {"200", "200bad"}

\* C9: every 2xx response is followed by exactly one sleep of REQUEST_DELAY,
\* no other answer is; a returning call ends with 2xx, sleep, json, return.
C9_DelayAfterSuccess ==
    RequestDone =>
        LET e == last_request.events
            n == Len(e)
        IN  /\ \A i \in 1..n : Is2xx(e[i]) => (e[i + 1] = "sleep" /\ e[i + 2] # "sleep")
            /\ \A i \in 1..n : e[i] = "sleep" => (i > 1 /\ Is2xx(e[i - 1]))
            /\ last_request.slept =
                  REQUEST_DELAY * Cardinality({i \in 1..n : Is2xx(e[i])})
            /\ ~last_request.raised =>
                  /\ SubSeq(e, n - 3, n) = <<"200", "sleep", "json", "return">>
                  /\ ret = Return(Val(payload))

\* C9 witness: a success on the last attempt after two failed ones
C9_Witness ==
    /\ RequestDone
    /\ ~last_request.raised
    /\ last_request.tries = MAX_RETRIES
    /\ last_request.slept = REQUEST_DELAY

\* C10: fetch_business_stats makes one request; a 404 gives (None, None); a
\* success gives the payload unchanged and business data with the requested
\* slug, named by businessName or, without one, by the slug.
C10_FetchStats ==
    (op = "fetch_business_stats" /\ pc = "done") =>
        /\ api_calls = 1
        /\ (last_request.raised /\ last_request.exc.type = "HTTPError"
              /\ last_request.exc.status_code = 404) =>
              ret = Return([business_data |-> None, stats_data |-> None])
        /\ ~last_request.raised =>
              /\ ret.kind = "return"
              /\ ret.value.stats_data = payload
              /\ ~IsNone(ret.value.business_data)
              /\ Val(ret.value.business_data).slug = args.business_slug
              /\ Val(ret.value.business_data).name =
                    IF /\ "monthlyStats" \in DOMAIN Val(payload)
                       /\ "businessName" \in DOMAIN Val(payload).monthlyStats
                    THEN Val(payload).monthlyStats.businessName
                    ELSE args.business_slug

\* C10 witness: a payload without a business name
C10_Witness ==
    /\ op = "fetch_business_stats" /\ pc = "done"
    /\ ~last_request.raised
    /\ "monthlyStats" \in DOMAIN Val(payload)
    /\ "businessName" \notin DOMAIN Val(payload).monthlyStats
    /\ Val(ret.value.business_data).name = args.business_slug

\* the page loop was entered: end_page was given, or get_total_pages returned
\* a total that is not 0
LoopEntered ==
    /\ InFetch
    /\ IsNone(args.end_page) =>
          /\ total_pages # << >>
          /\ total_pages[1].kind = "return"
          /\ total_pages[1].value # 0

\* no page fetched in this call carried a known review
NoKnownServed == \A p \in Pages : Served(p) => IdsOn(p) \cap KnownIds = {}

EmptyPage(p) == Served(p) /\ Val(remote[p]) = << >>

\* C24 as stated: with no already-known review on any page, no page after an
\* empty page is requested.
C24_AsStated ==
    (LoopEntered /\ NoKnownServed) =>
        \A p \in RequestedPages :
            EmptyPage(p) => \A q \in RequestedPages : q <= p

\* C24 (amended): with no already-known review on any page and no failing
\* request, the loop continues page by page up to end_page; an empty page adds
\* nothing and does not stop it: the call is over only when every page of
\* start_page..end_page was requested.
C24_ContinuesToEndPage ==
    (LoopEntered /\ NoKnownServed /\ IsNone(page_error)) =>
        /\ \A p \in RequestedPages :
              (EmptyPage(p) /\ p < end_page) =>
                  \/ pc = "loop" /\ page = p + 1
                  \/ p + 1 \in RequestedPages
        /\ pc = "done" => RequestedPages = args.start_page..end_page

\* an empty page below end_page, and the page after it was requested
C24_Witness ==
    /\ LoopEntered /\ NoKnownServed /\ IsNone(page_error)
    /\ pc = "done"
    /\ \E p \in RequestedPages :
          EmptyPage(p) /\ p + 1 \in RequestedPages /\ Served(p + 1)
                       /\ Val(remote[p + 1]) # << >>

\* the business record the first review of page p gives
FromFirstReview(p) ==
    LET first_review == Val(remote[p])[1]
    IN  [slug |-> args.business_slug,
         name |-> IF "business_name" \in DOMAIN first_review
                  THEN first_review.business_name ELSE args.business_slug,
         industry_name |-> IF "industry_name" \in DOMAIN first_review
                           THEN first_review.industry_name ELSE Null,
         industry_slug |-> IF "industry_slug" \in DOMAIN first_review
                           THEN first_review.industry_slug ELSE Null]

\* the visited pages that returned a review
PagesWithReviews == {p \in Pages : Served(p) /\ Val(remote[p]) # << >>}

\* C25 as stated: the returned business name and industry come from the first
\* review of the first visited page that returned any review, also when that
\* page is not start_page; the slug is the name only if no visited page
\* carried a review.
C25_AsStated ==
    (LoopEntered /\ pc = "done" /\ ret.kind = "return" /\ PagesWithReviews # {}) =>
        ret.value.business_data =
            Some(FromFirstReview(CHOOSE p \in PagesWithReviews :
                                     \A q \in PagesWithReviews : p <= q))

\* C25 (amended): the returned business name and industry come from the
\* first review of start_page, the first visited page, whatever its number;
\* when start_page is served without reviews the record is named after the
\* slug, also when a later page carried reviews; when the request for
\* start_page failed, or no page was requested, there is no record.
C25_BusinessFromStartPage ==
    (LoopEntered /\ pc = "done" /\ ret.kind = "return") =>
        ret.value.business_data =
            IF ~Served(args.start_page) \/ args.start_page \notin RequestedPages
            THEN None
            ELSE IF EmptyPage(args.start_page)
            THEN Some(MinimalBusiness(args.business_slug))
            ELSE Some(FromFirstReview(args.start_page))

\* start_page is not page 1 and its first review names the business
C25_Witness ==
    /\ LoopEntered /\ pc = "done" /\ ret.kind = "return"
    /\ args.start_page > 1
    /\ args.start_page \in RequestedPages
    /\ Served(args.start_page) /\ Len(Val(remote[args.start_page])) = 2
    /\ Val(ret.value.business_data).name = "Acme Ltd"
    /\ "business_name" \notin DOMAIN Val(remote[args.start_page])[2]

\* C29: pages are requested in strictly ascending order beginning at
\* start_page, each at most once, none below start_page or above end_page, and
\* page p+1 is requested only after the response for page p was processed:
\* every requested page but the last was served and added, and the loop
\* variable is the page after the last one requested.
C29_SequentialPages ==
    LoopEntered =>
        /\ \A i \in 1..Len(requested) : requested[i] = args.start_page + i - 1
        /\ \A i \in 1..Len(requested) :
              requested[i] >= args.start_page /\ requested[i] <= end_page
        /\ \A i, j \in 1..Len(requested) : i < j => requested[i] < requested[j]
        /\ \A i \in 1..(Len(requested) - 1) : Served(requested[i])
        /\ pc = "loop" =>
              /\ page = args.start_page + Len(requested)
              /\ \A i \in 1..Len(requested) : Served(requested[i])
              /\ all_reviews = NewOnPages(requested)

\* two pages requested one after the other from a start_page above 1
C29_Witness ==
    /\ LoopEntered /\ pc = "done"
    /\ args.start_page = 2
    /\ requested = <<2, 3>>
    /\ Served(2) /\ Served(3)

\* the number of pages of the range start_page..end_page
RangeSize == IF end_page >= args.start_page THEN end_page - args.start_page + 1 ELSE 0

\* C31: in one call get_total_pages is consulted exactly once when end_page is
\* omitted and never when it is given; with no known IDs and no failure the
\* number of review-page requests of a finished call is end_page - start_page
\* + 1, zero when start_page > end_page or when the total was 0.
C31_RequestCount ==
    InFetch =>
        /\ Len(total_pages) = IF IsNone(args.end_page) THEN 1 ELSE 0
        /\ api_calls = Len(total_pages) + Len(requested)
        /\ (pc = "done" /\ KnownIds = {} /\ IsNone(page_error) /\ ret.kind = "return") =>
              Len(requested) = IF LoopEntered THEN RangeSize ELSE 0

\* end_page omitted, a total of two pages or more, every page requested
C31_Witness ==
    /\ InFetch /\ pc = "done" /\ KnownIds = {} /\ IsNone(page_error)
    /\ IsNone(args.end_page) /\ Len(total_pages) = 1
    /\ args.start_page = 1
    /\ Len(requested) >= 2 /\ Len(requested) = end_page
    /\ api_calls = end_page + 1

\* the reviews of the served pages among ps, unfiltered, in the order of ps
RECURSIVE AllOnPages(_)
AllOnPages(ps) ==
    IF ps = << >> THEN << >>
    ELSE (IF Served(Head(ps)) THEN Val(remote[Head(ps)]) ELSE << >>)
         \o AllOnPages(Tail(ps))

\* C37: an empty known-ID set behaves like an absent one.  With either, no
\* review is filtered and the early stop never triggers: the collected reviews
\* are all the reviews of the pages served, and the page requests are those of
\* the whole range, cut short by a failing request only.
C37_EmptyKnownSet ==
    (LoopEntered /\ KnownIds = {}) =>
        /\ all_reviews = AllOnPages(requested)
        /\ requested = [i \in 1..Len(requested) |-> args.start_page + i - 1]
        /\ pc = "loop" => page = args.start_page + Len(requested)
        /\ pc = "done" =>
              /\ ret = Return([business_data |-> business_data,
                               reviews |-> AllOnPages(requested)])
              /\ IF IsNone(page_error) THEN Len(requested) = RangeSize
                 ELSE requested[Len(requested)] = Val(page_error).page

\* an empty set was passed; a page without reviews was followed by a page
\* with reviews, which were returned
C37_Witness ==
    /\ LoopEntered /\ pc = "done" /\ IsNone(page_error)
    /\ args.existing_review_ids = Some({})
    /\ \E p \in RequestedPages :
          EmptyPage(p) /\ p + 1 \in RequestedPages /\ Served(p + 1)
                       /\ Val(remote[p + 1]) # << >>
    /\ ret.value.reviews # << >>

\* C38: whenever the call returns a review list that is not empty, the
\* business info is not None and carries the requested slug; the business info
\* is None only when no review is returned: the total was 0, the page range
\* was empty, or the request for start_page failed.
C38_BusinessInfo ==
    (InFetch /\ pc = "done" /\ ret.kind = "return") =>
        /\ ret.value.reviews # << >> => ~IsNone(ret.value.business_data)
        /\ ~IsNone(ret.value.business_data) =>
              Val(ret.value.business_data).slug = args.business_slug
        /\ IsNone(ret.value.business_data) =>
              /\ ret.value.reviews = << >>
              /\ \/ ~LoopEntered /\ total_pages = <<Return(0)>>
                 \/ LoopEntered /\ RangeSize = 0
                 \/ /\ LoopEntered /\ ~IsNone(page_error)
                    /\ Val(page_error).page = args.start_page

\* reviews of two pages returned with the business info of the first
C38_Witness ==
    /\ InFetch /\ pc = "done" /\ ret.kind = "return"
    /\ Len(requested) >= 2
    /\ Len(ret.value.reviews) >= 2
    /\ Val(ret.value.business_data).slug = args.business_slug
    /\ KnownIds # {}

\* the known IDs are those of the oldest k listed reviews, for some k
OldestKnown ==
    \E k \in 0..Len(ListedFrom(1)) : KnownIds = Oldest(ListedFrom(1), k)

\* C36: completeness under the newest-first assumption.  The remote lists
\* the reviews newest first and does not change, the known IDs are those of
\* the oldest k reviews: a call from page 1 to the last page that met no
\* failure returns exactly the listed reviews whose ID is not known, in the
\* order of the listing; the early stop skipped no new review.
C36_Complete ==
    (InFetch /\ pc = "done" /\ IsNone(page_error) /\ OldestKnown) =>
        /\ ret.kind = "return"
        /\ [i \in 1..Len(ret.value.reviews) |-> ret.value.reviews[i].id]
              = SelectSeq(ListedFrom(1), LAMBDA id : id \notin KnownIds)
        /\ \A p \in Pages :
              p \notin RequestedPages =>
                  \A i \in 1..Len(Val(remote[p])) : Val(remote[p])[i].id \in KnownIds

\* the call stopped at a page of known reviews after a page of new ones
C36_Witness ==
    /\ InFetch /\ pc = "done" /\ IsNone(page_error)
    /\ KnownIds # {} /\ OldestKnown
    /\ ret.value.reviews # << >>
    /\ Len(requested) = 2
    /\ IdsOn(2) # {} /\ IdsOn(2) \subseteq KnownIds

\* the answers the HTTP attempts of the call met, in order
AnswersMet == SelectSeq(last_request.events, LAMBDA x : x \in Answers)

\* C30: bounded retry.  A request that keeps failing with a connection error
\* or a 5xx status gets MAX_RETRIES attempts, never more, and the error of the
\* last one is surfaced; when an attempt within the bound succeeds, no further
\* attempt is made and its payload is returned.  Every call ends: with a
\* return or with the give-up of the retry decorator.
C30_BoundedRetry ==
    RequestDone =>
        /\ Len(AnswersMet) = last_request.tries
        /\ last_request.tries \in 1..MAX_RETRIES
        /\ last_request.events[Len(last_request.events)] \in {"return", "giveup"}
        /\ (\A i \in 1..Len(AnswersMet) : AnswersMet[i] \in {"500", "conn"}) =>
              /\ last_request.tries = MAX_RETRIES
              /\ Count(last_request.events, "backoff") = MAX_RETRIES - 1
              /\ ret = Raise(Raised(AnswersMet[MAX_RETRIES]))
        /\ \A i \in 1..Len(AnswersMet) :
              AnswersMet[i] = "200" =>
                  /\ i = last_request.tries
                  /\ ret = Return(Val(payload))

\* a connection error, then 5xx answers to the last attempt
C30_Witness ==
    /\ RequestDone
    /\ AnswersMet = <<"conn", "500", "500">>
    /\ ret = Raise([type |-> "HTTPError", status_code |-> 500])

(* ---------------- properties of the database operations ---------------- *)

LastOp(name) == db_call.op = name

Returned == db_call.result.kind = "return"

\* the review ID of the record the last store_review was given, 0 if none
LastReviewId == Get(db_call.review_data, "id", 0)

\* C11: review immutability.  After any sequence of store_review calls the
\* store holds at most one row per review ID, and that row is the one the first
\* successful store of the ID wrote (its content, its owning business); a later
\* store of the same ID returns the existing row and changes nothing.
C11_ReviewImmutability ==
    /\ \A i, j \in 1..Len(store.reviews) :
          store.reviews[i].review_id = store.reviews[j].review_id => i = j
    /\ \A i \in 1..Len(store.reviews) :
          /\ ~IsNone(first_write[store.reviews[i].review_id])
          /\ store.reviews[i] = Val(first_write[store.reviews[i].review_id])
    /\ LastOp("store_review") /\ Returned /\ LastReviewId # 0 =>
          IF ReviewRowOf(db_prev, LastReviewId) # 0
          THEN /\ store = db_prev
               /\ db_call.result.value = Some(ReviewRowOf(db_prev, LastReviewId))
          ELSE ~IsNone(db_call.result.value) =>
                  LET row == store.reviews[Val(db_call.result.value)]
                  IN  /\ row.review_id = LastReviewId
                      /\ row.review_title = db_call.review_data.review_title
                      /\ row.business_id = db_call.business_id

\* a stored review ID is stored again with another title for another business
C11_Witness ==
    /\ LastOp("store_review") /\ Returned /\ LastReviewId # 0
    /\ ReviewRowOf(db_prev, LastReviewId) # 0
    /\ db_prev.reviews[ReviewRowOf(db_prev, LastReviewId)].review_title
          # db_call.review_data.review_title
    /\ db_prev.reviews[ReviewRowOf(db_prev, LastReviewId)].business_id
          # db_call.business_id

\* the stats rows of a business
StatsRowsOf(s, business_id) ==
    {i \in 1..Len(s.stats) : s.stats[i].business_id = business_id}

\* C12: the stats upsert is last-write-wins.  After any sequence of
\* store_business_stats calls each business has at most one stats row, the row
\* keeps its identity across updates, and all its fields reflect the most
\* recent payload stored for that business.
C12_StatsLastWriteWins ==
    \A b \in DOMAIN last_stats :
        /\ Cardinality(StatsRowsOf(store, b)) <= 1
        /\ StatsRowOf(db_prev, b) # 0 => StatsRowOf(store, b) = StatsRowOf(db_prev, b)
        /\ IF IsNone(last_stats[b]) THEN StatsRowsOf(store, b) = {}
           ELSE /\ StatsRowsOf(store, b) # {}
                /\ LET row == store.stats[StatsRowOf(store, b)]
                       d == Val(last_stats[b])
                   IN  /\ row = StatsRow(b, d, row.last_updated)
                       /\ row.total_reviews = d.totalReviews
                       /\ row.avg_response_time = GetOpt(d, "avgResponseTime")
                       /\ row.last_updated <= store.clock

\* a business's stats are stored a second time with another payload
C12_Witness ==
    /\ LastOp("store_business_stats") /\ Returned
    /\ StatsRowOf(db_prev, db_call.business_id) # 0
    /\ db_prev.stats[StatsRowOf(db_prev, db_call.business_id)].total_reviews
          # db_call.stats_data.totalReviews

\* the labels that name k stars, k = 1..5
StarLabels == <<"1 Star", "2 Stars", "3 Stars", "4 Stars", "5 Stars">>

\* the rating rows of a stats payload
RowsOf(stats_data) == Get(Get(stats_data, "reviewRatings", << >>), "rows", << >>)

\* the well-formed rows of a payload whose label names k stars
RowsNaming(stats_data, k) ==
    {i \in 1..Len(RowsOf(stats_data)) :
        /\ Len(RowsOf(stats_data)[i]) >= 2
        /\ RowsOf(stats_data)[i][1] = StarLabels[k]}

\* the count the claim expects in bucket k: that of the row naming k stars
\* (the last one if several do), 0 when no row does
ExpectedCount(stats_data, k) ==
    IF RowsNaming(stats_data, k) = {} THEN 0
    ELSE RowsOf(stats_data)[CHOOSE i \in RowsNaming(stats_data, k) :
                                \A j \in RowsNaming(stats_data, k) : j <= i][2]

\* a store_business_stats call that met no database error
StatsCallNoFault ==
    /\ LastOp("store_business_stats")
    /\ ~(db_call.result.kind = "raise" /\ db_call.result.value = DbError)

\* C21: rating-histogram extraction.  For each star bucket k in 1..5 the
\* stored count is the count of the row whose label names k stars, 0 when no
\* row matches; a row with an unrecognized label, with fewer than two elements
\* or with a label that is not a text contributes to no bucket and never makes
\* store_business_stats fail.
C21_AsStated ==
    StatsCallNoFault =>
        /\ Returned
        /\ \A k \in 1..5 :
              store.stats[db_call.result.value].rating_counts[k]
                  = ExpectedCount(db_call.stats_data, k)

\* C22: the average rating is parsed defensively.  When reviewAverage is
\* missing, empty or not numeric the stored average_rating is 0.0 and the call
\* completes with the stats row written; when it is a numeric text the stored
\* average_rating is that number (here in tenths).
C22_AverageRating ==
    StatsCallNoFault /\ ~RowsRaise(RowsOf(db_call.stats_data)) =>
        /\ Returned
        /\ store.stats[db_call.result.value].business_id = db_call.business_id
        /\ store.stats[db_call.result.value].total_reviews
              = db_call.stats_data.totalReviews
        /\ store.stats[db_call.result.value].average_rating =
              (CASE "reviewAverage" \notin DOMAIN db_call.stats_data -> 0
                 [] db_call.stats_data.reviewAverage = "4.5" -> 45
                 [] db_call.stats_data.reviewAverage \in {"", "n/a"} -> 0)

\* an average that is not numeric is stored as 0.0 next to a row that holds 4.5
C22_Witness ==
    /\ StatsCallNoFault /\ Returned
    /\ "reviewAverage" \in DOMAIN db_call.stats_data
    /\ db_call.stats_data.reviewAverage = "n/a"
    /\ store.stats[db_call.result.value].average_rating = 0
    /\ \E i \in 1..Len(db_prev.stats) : db_prev.stats[i].average_rating = 45

\* the last store_review was given a new review ID and met no database error
InsertsReview ==
    /\ LastOp("store_review") /\ db_call.fault = "none"
    /\ LastReviewId # 0 /\ ReviewRowOf(db_prev, LastReviewId) = 0

\* what a date field of the record holds: "absent", "valid" or "unparseable"
DateField(review_data, field, format) ==
    IF ~TruthyText(Get(review_data, field, Null)) THEN "absent"
    ELSE IF strptime(review_data[field], format).ok THEN "valid" ELSE "unparseable"

CreatedAtField == DateField(db_call.review_data, "created_at", "%Y-%m-%d %H:%M:%S")

AuthorDateField == DateField(db_call.review_data, "author_created_date", "%Y-%m-%d")

\* the fields of the inserted row that are not dates are those of the record
OtherFieldsAsGiven(row) ==
    /\ row.review_id = LastReviewId
    /\ row.business_id = db_call.business_id
    /\ row.review_title = db_call.review_data.review_title
    /\ row.replied = ("replied" \in DOMAIN db_call.review_data)

\* the stored value of a date field that is stored as given
AsGiven(kind, text, format) ==
    IF kind = "valid" THEN Some(strptime(text, format).value) ELSE None

\* C23 as stated: the row is inserted even when a date field cannot be
\* parsed; the unparseable date is stored as absent, no exception is raised
\* and all other fields, the other date among them, are stored as given.
C23_AsStated ==
    InsertsReview =>
        /\ Returned
        /\ db_call.result.value = Some(Len(db_prev.reviews) + 1)
        /\ LET row == store.reviews[Len(db_prev.reviews) + 1]
           IN  /\ OtherFieldsAsGiven(row)
               /\ row.created_at =
                     AsGiven(CreatedAtField,
                             Get(db_call.review_data, "created_at", Null),
                             "%Y-%m-%d %H:%M:%S")
               /\ row.author_created_date =
                     AsGiven(AuthorDateField,
                             Get(db_call.review_data, "author_created_date", Null),
                             "%Y-%m-%d")

\* C23 (amended): store_review inserts the row even when a date text cannot
\* be parsed: no exception is raised, both date fields are then stored as
\* absent (also the one that was valid), and every field that is not a date is
\* stored as given; when no date fails each date is stored as parsed.
C23_DatesAbsent ==
    InsertsReview =>
        /\ Returned
        /\ db_call.result.value = Some(Len(db_prev.reviews) + 1)
        /\ Len(store.reviews) = Len(db_prev.reviews) + 1
        /\ LET row == store.reviews[Len(db_prev.reviews) + 1]
           IN  /\ OtherFieldsAsGiven(row)
               /\ IF "unparseable" \in {CreatedAtField, AuthorDateField}
                  THEN row.created_at = None /\ row.author_created_date = None
                  ELSE /\ IsNone(row.created_at) <=> CreatedAtField = "absent"
                       /\ IsNone(row.author_created_date) <=> AuthorDateField = "absent"
                       /\ CreatedAtField = "valid" =>
                             row.created_at \in {<<2024010110>>, <<2024020110>>}

\* a review with a valid timestamp and an unparseable author date is inserted
C23_Witness ==
    /\ InsertsReview /\ Returned
    /\ CreatedAtField = "valid" /\ AuthorDateField = "unparseable"
    /\ store.reviews[Len(store.reviews)].review_id = LastReviewId
    /\ store.reviews[Len(store.reviews)].created_at = None

\* the row the last store_review inserted
InsertedRow == store.reviews[Len(db_prev.reviews) + 1]

\* C40: in store_review the two date fields are absorbed together.  If
\* either created_at or author_created_date fails to parse, the inserted row
\* holds neither date, also when the other one was valid; it holds both as
\* parsed only when both were given and neither fails, and in no case the
\* one without the other when both were given.
C40_DatesTogether ==
    (InsertsReview /\ Len(store.reviews) = Len(db_prev.reviews) + 1) =>
        /\ "unparseable" \in {CreatedAtField, AuthorDateField} =>
              /\ IsNone(InsertedRow.created_at)
              /\ IsNone(InsertedRow.author_created_date)
        /\ (CreatedAtField = "valid" /\ AuthorDateField = "valid") =>
              /\ InsertedRow.created_at =
                    Some(strptime(db_call.review_data.created_at,
                                  "%Y-%m-%d %H:%M:%S").value)
              /\ InsertedRow.author_created_date =
                    Some(strptime(db_call.review_data.author_created_date,
                                  "%Y-%m-%d").value)
        /\ (~IsNone(InsertedRow.created_at) /\ ~IsNone(InsertedRow.author_created_date)) =>
              CreatedAtField = "valid" /\ AuthorDateField = "valid"
        /\ (CreatedAtField # "absent" /\ AuthorDateField # "absent") =>
              (IsNone(InsertedRow.created_at) <=> IsNone(InsertedRow.author_created_date))

\* a review with an unparseable timestamp and a valid author date is
\* inserted without its author date
C40_Witness ==
    /\ InsertsReview /\ Returned
    /\ CreatedAtField = "unparseable" /\ AuthorDateField = "valid"
    /\ InsertedRow.review_id = LastReviewId
    /\ IsNone(InsertedRow.author_created_date)

\* the business rows of a slug
BusinessRowsOf(s, slug) ==
    {i \in 1..Len(s.businesses) : s.businesses[i].slug = slug}

\* C13: get_or_create_business is first-write-wins.  A call for a stored slug
\* returns the stored row, name and industry unchanged whatever the arguments;
\* after any sequence of calls there is exactly one business row per slug a
\* call was made (and returned) for.
C13_FirstWriteWins ==
    /\ \A g \in Slugs :
          IF IsNone(first_business[g]) THEN BusinessRowsOf(store, g) = {}
          ELSE /\ Cardinality(BusinessRowsOf(store, g)) = 1
               /\ store.businesses[BusinessIdOf(store, g)] = Val(first_business[g])
    /\ LastOp("get_or_create_business") /\ Returned =>
          /\ ~IsNone(first_business[db_call.slug])
          /\ db_call.result.value = BusinessIdOf(store, db_call.slug)
          /\ IF BusinessIdOf(db_prev, db_call.slug) # 0
             THEN /\ store = db_prev
                  /\ db_call.result.value = BusinessIdOf(db_prev, db_call.slug)
             ELSE store.businesses[db_call.result.value].name = db_call.name

\* a stored slug is asked for again under another name
C13_Witness ==
    /\ LastOp("get_or_create_business") /\ Returned
    /\ BusinessIdOf(db_prev, db_call.slug) # 0
    /\ db_prev.businesses[BusinessIdOf(db_prev, db_call.slug)].name # db_call.name

\* the review IDs whose first successful store was for the business of the slug
OwnedBy(slug) ==
    {i \in Ids : /\ ~IsNone(first_write[i])
                 /\ store.businesses[Val(first_write[i]).business_id].slug = slug}

TimestampsOf(s, slug) ==
    {Val(s.reviews[i].created_at) :
        i \in {j \in 1..Len(s.reviews) :
                  /\ BusinessIdOf(s, slug) # 0
                  /\ s.reviews[j].business_id = BusinessIdOf(s, slug)
                  /\ ~IsNone(s.reviews[j].created_at)}}

\* C28: get_latest_review_date returns the maximum creation timestamp among
\* the reviews stored for the given business, and None when the business is
\* unknown or has no stored review (or none with a timestamp); the reviews of
\* other businesses never influence the result, and the store is not changed.
C28_LatestReviewDate ==
    (LastOp("get_latest_review_date") /\ db_call.fault = "none") =>
        /\ Returned
        /\ store = db_prev
        /\ LET ts == TimestampsOf(store, db_call.business_slug)
           IN  IF ts = {} THEN db_call.result.value = None
               ELSE /\ ~IsNone(db_call.result.value)
                    /\ Val(db_call.result.value) \in ts
                    /\ \A t \in ts : t <= Val(db_call.result.value)

\* the business has reviews of two dates and the later one is returned
C28_Witness ==
    /\ LastOp("get_latest_review_date") /\ Returned
    /\ Cardinality(TimestampsOf(store, db_call.business_slug)) = 2
    /\ db_call.result.value = Some(2024020110)
    /\ store.reviews[1].created_at = Some(2024020110)

(* ---------------- properties of save_to_database ---------------- *)

SaveFailed == LastOp("save_to_database") /\ ~db_call.result.value

\* the review IDs of the rows the last operation added
AddedIds ==
    {store.reviews[i].review_id : i \in (Len(db_prev.reviews) + 1)..Len(store.reviews)}

\* the rows that were in the store before the last operation are still there,
\* unchanged (stats rows: those of the other businesses)
EarlierRowsKept ==
    /\ Len(db_prev.businesses) <= Len(store.businesses)
    /\ Len(db_prev.reviews) <= Len(store.reviews)
    /\ \A i \in 1..Len(db_prev.businesses) : store.businesses[i] = db_prev.businesses[i]
    /\ \A i \in 1..Len(db_prev.reviews) : store.reviews[i] = db_prev.reviews[i]
    /\ \A i \in 1..Len(db_prev.stats) :
          \/ store.stats[i] = db_prev.stats[i]
          \/ /\ ~SaveFailed
             /\ db_prev.stats[i].business_id = BusinessIdOf(store, db_call.slug)

\* how many reviews of the batch were handled before the save failed
\* the save failed before anything was stored: init_db failed, or the lookup
\* of the business, or the commit of its new row
FailedAtStart ==
    \/ db_call.plan.init
    \/ /\ db_call.plan.at = 1
       /\ db_call.plan.kind = "query" \/ BusinessIdOf(db_prev, db_call.slug) = 0

HandledBefore ==
    LET plan == db_call.plan
    IN  IF FailedAtStart THEN 0
        ELSE IF plan.kind = "query" /\ plan.at \in 2..(Len(db_call.reviews) + 1)
        THEN plan.at - 2
        ELSE Len(db_call.reviews)

RowIds(s) == [i \in 1..Len(s.reviews) |-> s.reviews[i].review_id]

Range(q) == {q[i] : i \in 1..Len(q)}

\* the IDs a batch adds to a store holding the IDs known, its n-th operation
\* onwards: those of the records with a usable ID that is not stored yet and
\* whose insert does not fail
RECURSIVE InsertedBy(_, _, _, _)
InsertedBy(known, reviews, plan, n) ==
    IF reviews = << >> THEN << >>
    ELSE LET id == Get(Head(reviews), "id", 0)
             ins == id # 0 /\ id \notin known /\ FaultAt(plan, n) # "commit"
         IN  (IF ins THEN <<id>> ELSE << >>)
                 \o InsertedBy(IF ins THEN known \cup {id} ELSE known,
                               Tail(reviews), plan, n + 1)

\* the last operation was store_review on a record with no usable ID
RejectedNoId ==
    /\ db_call.op = "store_review"
    /\ Get(db_call.review_data, "id", 0) = 0

\* the last operation was store_review, the insert of a new review failed
RejectedInsert ==
    /\ db_call.op = "store_review"
    /\ Get(db_call.review_data, "id", 0) # 0
    /\ ReviewRowOf(db_prev, db_call.review_data.id) = 0
    /\ db_call.fault = "commit"

\* the last operation was a batch whose business row was there or was stored
BatchSaved ==
    /\ db_call.op = "save_to_database"
    /\ db_call.plan.kind # "query" /\ ~db_call.plan.init

\* C39: the rejected outcome of store_review.  For a record with no usable
\* ID (missing or zero) it inserts no row, returns None and leaves the store
\* as it was; when the insert fails it rolls back and returns None instead of
\* raising, and the store is as it was.  In a batch of save_to_database
\* neither outcome stops the loop: the rows stored before stay, every
\* remaining record with a usable new ID whose insert does not fail is
\* stored, in batch order, and save_to_database returns True.
C39_Rejected ==
    /\ RejectedNoId => db_call.result = Return(None) /\ store = db_prev
    /\ RejectedInsert => db_call.result = Return(None) /\ store = db_prev
    /\ BatchSaved =>
          /\ db_call.result = Return(TRUE)
          /\ RowIds(store) = RowIds(db_prev)
                                \o InsertedBy(Range(RowIds(db_prev)), db_call.reviews,
                                              db_call.plan, 2)
          /\ SubSeq(store.reviews, 1, Len(db_prev.reviews)) = db_prev.reviews
    /\ \A i \in 1..Len(store.reviews) : store.reviews[i].review_id # 0

\* a batch of three on an empty review table: the insert of the first record
\* failed, the second had the ID zero, the third was stored
C39_Witness ==
    /\ BatchSaved
    /\ Len(db_call.reviews) = 3
    /\ db_call.plan = [init |-> FALSE, at |-> 2, kind |-> "commit"]
    /\ RowIds(db_prev) = << >>
    /\ RowIds(store) = <<2>>

(* ---------------- properties of reset_database ---------------- *)

ResetDone == LastOp("reset_database")

\* the tables exist and hold no row
TablesEmpty(s) ==
    /\ s.exists
    /\ s.businesses = << >> /\ s.reviews = << >> /\ s.stats = << >>

\* the position of a call among those the reset made, 0 if it was not made
CallNo(e) ==
    IF \E i \in 1..Len(db_call.events) : db_call.events[i] = e
    THEN CHOOSE i \in 1..Len(db_call.events) : db_call.events[i] = e
    ELSE 0

\* C27: reset destroys and recreates the store.  After a reset that returned
\* True the three tables exist and are empty; when the database file exists
\* and cannot be removed the reset returns False, the data is kept and
\* create_all is not called; whenever the file is removed, the sessions were
\* closed just before.
C27_Reset ==
    ResetDone =>
        /\ (Returned /\ db_call.result.value) => TablesEmpty(store)
        /\ (db_prev.exists /\ db_call.fault = "remove") =>
              /\ db_call.result = Return(FALSE)
              /\ store = db_prev
              /\ CallNo("create_all") = 0
        /\ (db_call.fault = "none") => db_call.result = Return(TRUE)
        /\ CallNo("remove") # 0 =>
              /\ db_prev.exists
              /\ CallNo("close_all") = CallNo("remove") - 1
        /\ (db_prev.exists /\ Returned /\ db_call.result.value) =>
              CallNo("remove") # 0 /\ CallNo("remove") < CallNo("create_all")

\* a store holding reviews and stats was reset and is empty
C27_Witness ==
    /\ ResetDone /\ db_call.result = Return(TRUE)
    /\ db_prev.reviews # << >> /\ db_prev.stats # << >>
    /\ TablesEmpty(store)
    /\ db_call.events = <<"close_all", "remove", "create_all">>

(* ---------------- properties of fetch_command ---------------- *)

\* the log entries of the business the run is at
RECURSIVE SinceBegin(_)
SinceBegin(log) ==
    IF log = << >> \/ log[Len(log)].ev = "begin" THEN << >>
    ELSE Append(SinceBegin(SubSeq(log, 1, Len(log) - 1)), log[Len(log)])

Logged(log, ev) == \E i \in 1..Len(log) : log[i].ev = ev

\* the review IDs the store holds for the business of the slug
StoredIdsOf(slug) ==
    {store.reviews[i].review_id :
        i \in {j \in 1..Len(store.reviews) :
                  store.businesses[store.reviews[j].business_id].slug = slug}}

\* the pages of the call that were served: all requested ones but a failed one
RECURSIVE ReviewsOn(_)
ReviewsOn(ps) ==
    IF ps = << >> THEN << >>
    ELSE (IF ~IsNone(page_error) /\ Val(page_error).page = Head(ps) THEN << >>
          ELSE Val(remote[Head(ps)])) \o ReviewsOn(Tail(ps))

\* the reviews fetch of the current business is under way or has just ended
Fetching == cli_pc = "fetching"

\* C15: the force-refresh flag bypasses the known-ID set.  The known review
\* IDs are read from the store and passed to fetch_reviews_for_business only
\* when the sink is the database and force-refresh is off; with force-refresh
\* set, or with a flat-file sink, no known-ID set is read, no review is
\* filtered and no early stop can occur.
C15_ForceRefresh ==
    Fetching =>
        IF cli.output_format = "db" /\ ~cli_args.force_refresh
        THEN /\ Logged(SinceBegin(cli_log), "ids")
             /\ args.existing_review_ids = Some(StoredIdsOf(business_slug))
        ELSE /\ ~Logged(SinceBegin(cli_log), "ids")
             /\ IsNone(args.existing_review_ids)
             /\ all_reviews = ReviewsOn(requested)
             /\ pc = "done" /\ ret.kind = "return" /\ IsNone(page_error)
                   /\ total_pages[1].value # 0
                   => requested = [i \in 1..end_page |-> i]

\* force-refresh is set, the store holds reviews of the business, and the
\* fetch went through both pages and returned the stored reviews again
C15_Witness ==
    /\ Fetching /\ pc = "done"
    /\ cli.output_format = "db" /\ cli_args.force_refresh
    /\ StoredIdsOf(business_slug) # {}
    /\ Len(requested) = 2
    /\ \E i \in 1..Len(all_reviews) : all_reviews[i].id \in StoredIdsOf(business_slug)

SaveEvents == {"save_db", "save_csv", "save_json"}

\* the businesses of the run whose save returned success / reported failure
SavesDone == {i \in 1..Len(cli_log) : cli_log[i].ev \in SaveEvents /\ cli_log[i].ok}

SavesFailed == {i \in 1..Len(cli_log) : cli_log[i].ev = "save_db" /\ ~cli_log[i].ok}

\* the run has returned from a non-empty list
Returned0 == cli_pc = "returned" /\ cli_args.businesses # << >>

\* C17 as the specification states it: a business whose save_to_database
\* reported failure is counted as skipped and not as processed, and the run
\* proceeds to the next business.
C17_AsStated ==
    /\ cli.slugs_processed = Cardinality(SavesDone)
    /\ cli.slugs_skipped >= Cardinality(SavesFailed)
    /\ Len(cli_log) > 0 /\ cli_log[Len(cli_log)].ev = "save_db"
          /\ ~cli_log[Len(cli_log)].ok => cli_pc = "business"

\* the businesses the run has begun, in the order it began them
BegunSlugs ==
    LET B == SelectSeq(cli_log, LAMBDA e : e.ev = "begin")
    IN  [i \in 1..Len(B) |-> B[i].slug]

\* C18: a fetch run with a non-empty business list never aborts on one
\* target's failure.  The businesses are begun in list order, an exception
\* raised while fetching or saving one business leaves the run going on with
\* the next, and the command returns 0 after the last business was begun.
C18_NeverAborts ==
    /\ BegunSlugs = SubSeq(cli_args.businesses, 1, cli.idx)
    /\ Len(cli_log) > 0 /\ cli_log[Len(cli_log)].ev = "except"
          => cli_pc \in {"business", "returned"}
    /\ Returned0 =>
          /\ cli_ret = Some(0)
          /\ BegunSlugs = cli_args.businesses

\* the first business met an exception, the second was fetched and saved
C18_Witness ==
    /\ Returned0
    /\ \E i, j \in 1..Len(cli_log) :
          /\ i < j
          /\ cli_log[i].ev = "except" /\ cli_log[i].slug = cli_args.businesses[1]
          /\ cli_log[j].ev \in SaveEvents /\ cli_log[j].ok
          /\ cli_log[j].slug = cli_args.businesses[2]
          /\ cli_args.businesses[1] # cli_args.businesses[2]

\* C19 as the specification states it: at the end of a run every listed
\* business has been counted exactly once, as processed or as skipped, and a
\* business whose data was saved is not counted as skipped.
C19_AsStated ==
    Returned0 =>
        /\ cli.slugs_processed + cli.slugs_skipped = Len(cli_args.businesses)
        /\ cli.slugs_skipped <= Len(cli_args.businesses) - Cardinality(SavesDone)

\* the log entries of the business begun at entry b of the log
Segment(b) ==
    LET ends == {j \in (b + 1)..Len(cli_log) : cli_log[j].ev = "begin"}
        last == IF ends = {} THEN Len(cli_log)
                ELSE (CHOOSE j \in ends : \A k \in ends : j <= k) - 1
    IN  SubSeq(cli_log, b + 1, last)

Begins == {b \in 1..Len(cli_log) : cli_log[b].ev = "begin"}

\* the fetch ev of the business returned, with no data
ReturnedNothing(seg, ev) ==
    \E i \in 1..Len(seg) :
        /\ seg[i].ev = ev /\ ~seg[i].ok
        /\ i < Len(seg) => seg[i + 1].ev # "except"

\* both fetches of the business returned no data (the remote answered 404)
NoData(seg) == ReturnedNothing(seg, "stats") /\ ReturnedNothing(seg, "reviews")

\* the number of saves that reached save_to_database
DbSaves == Cardinality({i \in 1..Len(cli_log) : cli_log[i].ev = "save_db"})

\* C26: NotFound is non-fatal.  A business for which both the stats fetch and
\* the reviews fetch returned no data is skipped: no sink save is invoked for
\* it, nothing is written to the store for it (the store is written by logged
\* saves only, and a save is invoked only with data of its business), and the
\* run goes on with the next business or returns 0.
C26_NotFoundSkipped ==
    /\ \A b \in Begins :
          LET seg == Segment(b)
              last == Len(seg)
          IN  NoData(seg) =>
                /\ seg[last].ev \in {"reviews", "skip"}
                /\ \A i \in 1..last : seg[i].ev \notin SaveEvents \cup {"except"}
                /\ seg[last].ev = "reviews" =>
                      /\ b + last = Len(cli_log)
                      /\ cli_pc = "post" /\ ~cli.fetch_successful
                /\ (seg[last].ev = "skip" /\ b + last = Len(cli_log)) =>
                      /\ cli_pc \in {"business", "returned"}
                      /\ cli_pc = "returned" => cli_ret = Some(0)
    /\ db_ops = DbSaves
    /\ cli_pc = "post" /\ ~cli.fetch_successful =>
          /\ IsNone(cli.business_data_to_save)
          /\ IsNone(cli.stats_data_to_save)
          /\ IsNone(cli.reviews_to_save)
    /\ (Len(cli_log) > 0 /\ cli_log[Len(cli_log)].ev \in SaveEvents) =>
          /\ ~IsNone(cli.business_data_to_save)
          /\ Val(cli.business_data_to_save).slug = cli_log[Len(cli_log)].slug

\* the first business was not found and skipped, the second was saved to the
\* store, which holds nothing of the first
C26_Witness ==
    /\ Returned0 /\ cli_ret = Some(0)
    /\ cli_args.businesses = <<"acme", "zeta">>
    /\ NoData(Segment(1 + Cardinality({i \in {1} : cli_log[i].ev = "init_db"})))
    /\ cli_log[Len(cli_log)] = Event("save_db", "zeta", TRUE)
    /\ BusinessIdOf(store, "acme") = 0
    /\ BusinessIdOf(store, "zeta") # 0
    /\ cli.slugs_skipped >= 1

\* one of the two fetches of the business returned data
GotData(seg) == \E i \in 1..Len(seg) : seg[i].ev \in {"stats", "reviews"} /\ seg[i].ok

\* the reviews fetch of the business, or the reading of its known IDs, raised
FetchRaised(seg) ==
    \E i \in 1..(Len(seg) - 1) : seg[i].ev \in {"ids", "reviews"} /\ seg[i + 1].ev = "except"

\* the number of times the sink save was invoked for the business
SavesIn(seg) == Cardinality({i \in 1..Len(seg) : seg[i].ev \in SaveEvents})

\* the run has left the business begun at entry b of the log
Left(b) == b + Len(Segment(b)) < Len(cli_log) \/ cli_pc \in {"business", "returned"}

\* in the log of a business the stats fetch comes first, the save after both
\* fetches, and nothing but the report of its failure after the save
InOrder(seg) ==
    \A i, j \in 1..Len(seg) :
        i < j => /\ seg[j].ev # "stats"
                 /\ seg[i].ev \in SaveEvents => seg[j].ev = "except"
                 /\ seg[i].ev = "reviews" => seg[j].ev # "ids"

\* review pages are requested only inside the reviews fetch of the current
\* business, after its stats fetch and before its save, every earlier
\* business having been left
RequestsInOrder ==
    /\ (requested # << >> \/ total_pages # << >> \/ pc # "idle") =>
          /\ cli_pc = "fetching"
          /\ LET seg == SinceBegin(cli_log)
             IN  /\ SavesIn(seg) = 0
                 /\ ~cli_args.reviews_only => seg # << >> /\ seg[1].ev = "stats"
                 /\ seg # << >> => seg[Len(seg)].ev # "except"
    /\ \A b \in Begins :
          b + Len(Segment(b)) < Len(cli_log) =>
              Segment(b)[Len(Segment(b))].ev \in SaveEvents \cup {"skip", "nothing", "except"}

\* the save just invoked carried the stats and the reviews of the business
CarriesBoth ==
    (Len(cli_log) > 0 /\ cli_log[Len(cli_log)].ev \in SaveEvents) =>
        LET seg == SinceBegin(cli_log)
        IN  /\ ~IsNone(cli.stats_data_to_save) <=> Logged(SelectSeq(seg, LAMBDA e : e.ok), "stats")
            /\ ~IsNone(cli.reviews_to_save) <=> Logged(SelectSeq(seg, LAMBDA e : e.ok), "reviews")
            /\ cli_log[Len(cli_log)].ev = "save_db" =>
                  /\ db_call.op = "save_to_database"
                  /\ db_call.slug = business_slug
                  /\ db_call.stats_data = cli.stats_data_to_save
                  /\ db_call.reviews = IF IsNone(cli.reviews_to_save) THEN << >>
                                       ELSE Val(cli.reviews_to_save)

\* C32 as the specification states it: the sink save is invoked exactly once
\* for every business for which at least one of the two fetches returned
\* data.
C32_AsStated ==
    \A b \in Begins :
        Left(b) => SavesIn(Segment(b)) = IF GotData(Segment(b)) THEN 1 ELSE 0

\* C32: per-business ordering in a fetch run.  For each business the stats
\* request precedes every review-page request, which all precede the sink
\* save; the sink save is invoked exactly once for every business for which
\* at least one of the two fetches returned data and neither the reviews
\* fetch nor the reading of the known IDs raised an exception, and not at all
\* for any other business; it carries stats and reviews together, and no
\* request for the next business is issued before the save of the current
\* one has returned.
C32_Ordering ==
    /\ \A b \in Begins :
          /\ InOrder(Segment(b))
          /\ SavesIn(Segment(b)) <= 1
          /\ Left(b) =>
                SavesIn(Segment(b)) =
                    IF GotData(Segment(b)) /\ ~FetchRaised(Segment(b)) THEN 1 ELSE 0
    /\ RequestsInOrder
    /\ CarriesBoth

\* a run of two businesses: the first saved once with stats and reviews
\* of two pages, the second with stats only
C32_Witness ==
    /\ Returned0
    /\ Cardinality(Begins) = 2
    /\ \E b \in Begins :
          /\ Logged(SelectSeq(Segment(b), LAMBDA e : e.ok), "stats")
          /\ Logged(SelectSeq(Segment(b), LAMBDA e : e.ok), "reviews")
          /\ SavesIn(Segment(b)) = 1
    /\ \E b \in Begins :
          /\ Logged(SelectSeq(Segment(b), LAMBDA e : e.ok), "stats")
          /\ ReturnedNothing(Segment(b), "reviews")
          /\ SavesIn(Segment(b)) = 1

\* the stats of a business were fetched, its reviews fetch raised, and the
\* run has left the business
C32_StatsThenRaise ==
    \E b \in Begins :
        /\ Left(b)
        /\ GotData(Segment(b))
        /\ FetchRaised(Segment(b))

\* the step in which the reviews fetch of a business returns to the run
ReviewsReturn == cli_pc = "fetching" /\ cli_pc' # "fetching" /\ ret.kind = "return"

\* C33: the total reported at the end of a fetch run.  It starts at 0, grows
\* by the number of reviews a reviews fetch returned in the step in which
\* that fetch returns and changes in no other step (so it is the sum over the
\* businesses whose reviews fetch returned, and never decreases, also when a
\* save fails); it is 0 throughout a stats-only run.
C33_Total ==
    /\ cli.total_reviews_fetched = 0
    /\ [][cli'.total_reviews_fetched =
              cli.total_reviews_fetched
                  + IF ReviewsReturn THEN Len(ret.value.reviews) ELSE 0]_vars
    /\ [](cli_args.stats_only => cli.total_reviews_fetched = 0)

\* a run of two businesses returned with the reviews of both counted, the
\* save of one of them having failed
C33_Witness ==
    /\ Returned0
    /\ cli_args.businesses = <<"acme", "zeta">>
    /\ cli.total_reviews_fetched = 3
    /\ \E i \in 1..Len(cli_log) : cli_log[i].ev \in SaveEvents /\ ~cli_log[i].ok

\* the stats of the business were fetched, then its reviews fetch raised
StatsThenReviewsRaised(seg) ==
    /\ \E i \in 1..Len(seg) : seg[i].ev = "stats" /\ seg[i].ok
    /\ \E i \in 1..(Len(seg) - 1) : seg[i].ev = "reviews" /\ seg[i + 1].ev = "except"

\* the businesses that were counted as skipped for an exception
Excepted == {i \in 1..Len(cli_log) : cli_log[i].ev = "except"}

\* C34: if the reviews fetch of a business raises after the stats of that
\* business were fetched, no sink save is performed for the business (the
\* exception is the last entry of its log, and the store is written by logged
\* saves only, so the fetched stats are not written), the business is counted
\* as skipped, and the run goes on: the next business of the list is begun,
\* and the run returns 0 only after every business was begun.
C34_ReviewsRaise ==
    /\ \A b \in Begins :
          LET seg == Segment(b)
          IN  StatsThenReviewsRaised(seg) =>
                /\ SavesIn(seg) = 0
                /\ seg[Len(seg)].ev = "except" /\ seg[Len(seg) - 1].ev = "reviews"
                /\ Left(b)
                /\ b + Len(seg) = Len(cli_log) => cli_pc \in {"business", "returned"}
                /\ cli_pc = "returned" =>
                      cli_ret = Some(0) /\ Cardinality(Begins) = Len(cli_args.businesses)
    /\ db_ops = DbSaves
    /\ cli.slugs_skipped >= Cardinality(Excepted)

\* the reviews fetch of the first business raised after its stats were
\* fetched; nothing of it is in the store, the second business was saved
C34_Witness ==
    /\ Returned0 /\ cli_ret = Some(0)
    /\ cli_args.businesses = <<"acme", "zeta">>
    /\ \E b \in Begins : cli_log[b].slug = "acme" /\ StatsThenReviewsRaised(Segment(b))
    /\ cli_log[Len(cli_log)] = Event("save_db", "zeta", TRUE)
    /\ BusinessIdOf(store, "acme") = 0
    /\ store.stats # << >>
    /\ cli.slugs_skipped >= 1

\* the review IDs the remote lists for the business
RemoteIdsOf(slug) ==
    UNION {{Val(server[slug][p])[i].id : i \in 1..Len(Val(server[slug][p]))} : p \in Pages}

\* the store s holds every review the remote lists for the business
AllStoredIn(s, slug) ==
    \A id \in RemoteIdsOf(slug) :
        \E j \in 1..Len(s.reviews) :
            /\ s.reviews[j].review_id = id
            /\ s.businesses[s.reviews[j].business_id].slug = slug

\* the known IDs of the business are read from the store in this run
Incremental == cli.output_format = "db" /\ ~cli_args.force_refresh

\* C35: incremental idempotence.  Once the store holds every review the
\* remote lists for a business (an earlier failure-free fetch saved them), a
\* fetch of that business with the known IDs read from the store and
\* force-refresh off requests the first page only and returns no review, and
\* the save that follows leaves the review table as it was.
C35_Idempotent ==
    /\ (Fetching /\ Incremental /\ RemoteIdsOf(business_slug) # {}
            /\ AllStoredIn(store, business_slug)) =>
          /\ args.existing_review_ids = Some(StoredIdsOf(business_slug))
          /\ all_reviews = << >>
          /\ Len(requested) <= 1
          /\ pc = "done" =>
                /\ ret.kind = "return" => ret.value.reviews = << >>
                /\ (ret.kind = "return" /\ total_pages[1].kind = "return"
                        /\ total_pages[1].value # 0) => requested = <<1>>
    /\ (Len(cli_log) > 0 /\ cli_log[Len(cli_log)].ev = "save_db" /\ Incremental
            /\ AllStoredIn(db_prev, business_slug)) =>
          store.reviews = db_prev.reviews

\* the second fetch of a business whose two pages the first fetch saved: one
\* page requested, no review returned, and the table as it was after the save
C35_Witness ==
    /\ cli_pc = "business" /\ cli.idx = 2 /\ Incremental
    /\ cli_args.businesses = <<"acme", "acme">>
    /\ cli_log[Len(cli_log)] = Event("save_db", "acme", TRUE)
    /\ Logged(SinceBegin(cli_log), "reviews")
    /\ AllStoredIn(db_prev, "acme")
    /\ Len(store.reviews) = 2 /\ store.reviews = db_prev.reviews
    /\ cli.total_reviews_fetched = 2

InitDbFailed == Len(cli_log) > 0 /\ cli_log[1].ev = "init_db" /\ ~cli_log[1].ok

\* the fetches of the business the run has just left gave something to save
\* (no exception, one of the two fetches returned data)
HadData ==
    LET seg == SinceBegin(cli_log)
    IN  /\ \E i \in 1..Len(seg) : seg[i].ev \in {"stats", "reviews"} /\ seg[i].ok
        /\ \A i \in 1..Len(seg) : seg[i].ev \in {"stats", "reviews"} => seg[i + 1].ev # "except"

\* C20: configuration failure fallback.  If init_db fails at the start of a
\* run that selected the db format, the sink is CSV for every business:
\* save_to_database is never called, the known IDs are never read from the
\* store, the data of each business is written through save_to_csv, and the
\* run returns 0.
C20_InitFallback ==
    InitDbFailed =>
        /\ cli.output_format = "csv"
        /\ store = EmptyStore
        /\ db_call = NoDbCall
        /\ \A i \in 1..Len(cli_log) : cli_log[i].ev \notin {"save_db", "save_json", "ids"}
        /\ Fetching => IsNone(args.existing_review_ids)
        /\ cli_pc = "business" /\ cli.idx > 0 /\ HadData
              => Logged(SinceBegin(cli_log), "save_csv")
        /\ Returned0 => cli_ret = Some(0)

\* init_db failed and both businesses of the run were written as CSV
C20_Witness ==
    /\ InitDbFailed
    /\ Returned0
    /\ cli_ret = Some(0)
    /\ Cardinality({i \in SavesDone : cli_log[i].ev = "save_csv"}) = 2

====
